---- MODULE Spec2Model ----
(***************************************************************************)
(* sboot-cli: project scanning, resource classification and template-based *)
(* generation (ResourceGenerator, ModuleGenerator, ResourceScanner,        *)
(* ProjectScanner and the `create` command).                               *)
(*                                                                         *)
(* Strings.  A resource or file name is a sequence of segments.  Segments  *)
(* are atomic pieces of text chosen so that none of the patterns the code  *)
(* searches for ("Impl", "Repository", "Service", "Controller", " ")       *)
(* straddles a segment boundary or occurs inside another segment; so       *)
(* String.replace / endsWith / split on the text act on whole segments.    *)
(* A module name is a sequence of characters.  A file content is the set   *)
(* of the substrings the code tests with String.includes that occur in it. *)
(*                                                                         *)
(* File system.  Paths are relative to the base package directory          *)
(* <sourcePath>/<basePackage as path>.  dirs is the set of directories,    *)
(* files maps [dir, name] (name without the ".java" extension) to content. *)
(* disk describes what lies above that directory: the working directory,   *)
(* the build files of its ancestors, the source trees and the main classes.*)
(***************************************************************************)
EXTENDS Integers, Sequences, FiniteSets, TLC

VARIABLES
    project,     \* "ok" | "noSource" | "noMain": what PathResolver / findMainClass find
    disk,        \* the directories above the base package directory
    dirs,        \* directories under the base package directory
    files,       \* .java files under the base package directory
    configFile,  \* screan-boot.config.json: whether it exists and its configuration
    result,      \* outcome of the last operation
    steps,       \* number of operations performed
    layerFiles,  \* files of the scanned layer, in traversal order
    completed,   \* settled analyzeJavaFile calls of a running scan, in completion order
    records      \* ResourceScanner.scan result for layerFiles

vars == <<project, disk, dirs, files, configFile, result, steps, layerFiles, completed, records>>

-----------------------------------------------------------------------------
(* Bounds *)

MaxSteps == 2
MaxCommands == 1
MaxModuleLen == 2
MaxLayerFiles == 2
MaxChainSteps == 4
MaxMarkers == 3
MaxDepth == 2

-----------------------------------------------------------------------------
(* Text *)

RECURSIVE IndexOf(_, _, _)
\* index of the first occurrence of segment pat in s at or after i, 0 if none
IndexOf(s, pat, i) ==
    IF i > Len(s) THEN 0
    ELSE IF s[i] = pat THEN i
    ELSE IndexOf(s, pat, i + 1)

\* String.prototype.replace(pat, ''): removes the FIRST occurrence only
ReplaceFirst(s, pat) ==
    LET i == IndexOf(s, pat, 1)
    IN IF i = 0 THEN s
       ELSE SubSeq(s, 1, i - 1) \o SubSeq(s, i + 1, Len(s))

EndsWith(s, pat) == Len(s) > 0 /\ s[Len(s)] = pat

Contains(s, pat) == IndexOf(s, pat, 1) # 0

UpperSegments == {"Order", "Invoice", "Repository", "Service", "Controller", "Impl"}
LowerSegments == {"order"}
SpaceSegment == " "

\* /^[A-Z][a-zA-Z0-9 ]*$/ : every segment is alphanumeric or a space, so the
\* pattern only constrains the first character
ResourceNamePattern(s) ==
    /\ Len(s) > 0
    /\ s[1] \in UpperSegments
    /\ \A i \in 1..Len(s) : s[i] \in UpperSegments \cup LowerSegments \cup {SpaceSegment}

\* word.charAt(0).toUpperCase() + word.slice(1) on one segment
Capitalize(seg) == IF seg = "order" THEN "Order" ELSE seg

RECURSIVE PascalFrom(_, _, _)
\* name.split(' ').map(capitalize first letter).join('')
PascalFrom(s, i, wordStart) ==
    IF i > Len(s) THEN <<>>
    ELSE IF s[i] = SpaceSegment THEN PascalFrom(s, i + 1, TRUE)
    ELSE <<(IF wordStart THEN Capitalize(s[i]) ELSE s[i])>> \o PascalFrom(s, i + 1, FALSE)

PascalName(s) == PascalFrom(s, 1, TRUE)

LowerChars == {"s"}
UpperChars == {"S"}
DigitChars == {"1"}
ModuleChars == LowerChars \cup UpperChars \cup DigitChars

\* /^[a-z][a-z0-9]*$/
ModuleNamePattern(m) ==
    /\ Len(m) > 0
    /\ m[1] \in LowerChars
    /\ \A i \in 1..Len(m) : m[i] \in LowerChars \cup DigitChars

ModuleNames == UNION {[1..n -> ModuleChars] : n \in 1..MaxModuleLen}

-----------------------------------------------------------------------------
(* File system *)

File(dir, name) == [dir |-> dir, name |-> name]

EntityFile(m, n) == File(<<m, "domain", "entities">>, n)
RepositoryFile(m, n) == File(<<m, "infrastructure", "repositories">>, n \o <<"Repository">>)
ServiceFile(m, n) == File(<<m, "application", "services">>, n \o <<"Service">>)
ServiceImplFile(m, n) ==
    File(<<m, "application", "services", "implementations">>, n \o <<"Service", "Impl">>)
ControllerFile(m, n) == File(<<m, "infrastructure", "controllers">>, n \o <<"Controller">>)

\* fs.pathExists on a file path
PathExists(fs, f) == f \in DOMAIN fs

\* a directory path and all its ancestors below the base package directory
Ancestors(d) == {SubSeq(d, 1, i) : i \in 1..Len(d)}

\* fs.ensureDir: mkdir -p, existing directories are not an error
EnsureDir(ds, d) == ds \cup Ancestors(d)

\* variant: an existing file keeps its content
WriteFileIfAbsent(fs, f, content) ==
    [g \in DOMAIN fs \cup {f} |-> IF g = f /\ f \notin DOMAIN fs THEN content ELSE fs[g]]

\* fs.writeFile: creates the file or replaces its content
WriteFile(fs, f, content) ==
    [g \in DOMAIN fs \cup {f} |-> IF g = f THEN content ELSE fs[g]]

RECURSIVE DirsAfter(_, _, _)
DirsAfter(ds, writes, i) ==
    IF i > Len(writes) THEN ds
    ELSE DirsAfter(EnsureDir(ds, writes[i].file.dir), writes, i + 1)

RECURSIVE FilesAfter(_, _, _)
FilesAfter(fs, writes, i) ==
    IF i > Len(writes) THEN fs
    ELSE FilesAfter(WriteFile(fs, writes[i].file, writes[i].content), writes, i + 1)

-----------------------------------------------------------------------------
(* Configuration (ConfigManager) *)

Layer(name, enabled, folders) == [name |-> name, enabled |-> enabled, folders |-> folders]

\* ConfigManager.getDefaultConfig: no entityPreferences, useTransactional true
DefaultConfig ==
    [layers |-> << Layer("application", TRUE, <<"mappers", "services">>),
                   Layer("domain", TRUE, <<"entities", "enums">>),
                   Layer("infrastructure", TRUE, <<"controllers", "repositories", "dtos">>) >>,
     defaultIdType |-> "undefined",
     useTransactional |-> "true"]

\* configurations a user may have saved
Configs ==
    { DefaultConfig,
      [layers |-> << Layer("application", TRUE, <<"services">>),
                     Layer("domain", FALSE, <<"entities">>),
                     Layer("infrastructure", TRUE, <<>>) >>,
       defaultIdType |-> "LONG",
       useTransactional |-> "undefined"] }

\* the configuration file: whether it exists and what it holds
ConfigFile(exists, config) == [exists |-> exists, config |-> config]

NoConfigFile == ConfigFile(FALSE, DefaultConfig)

\* ConfigManager.getConfig: the content of the file, or the defaults
GetConfig(cf) == IF cf.exists THEN cf.config ELSE DefaultConfig

\* ConfigManager.getConfig saves the defaults when there is no file
ConfigFileAfterGetConfig(cf) == IF cf.exists THEN cf ELSE ConfigFile(TRUE, DefaultConfig)

-----------------------------------------------------------------------------
(* Templates (TemplateEngine.generateFromTemplate) *)

NoData ==
    [module |-> <<>>, name |-> <<>>, idType |-> "none", isUUID |-> FALSE,
     idGenerationType |-> "none", useTransactional |-> FALSE]

\* the substrings (among those the program searches for) of the rendered text
TemplateText(tpl, data) ==
    (IF data.isUUID THEN {"UUID"} ELSE {})
    \cup (CASE tpl = "entity" -> {"@Entity", "@Table"}
            [] tpl = "repository" -> {"@Repository", "Repository", "interface"}
            [] tpl \in {"service", "standalone-service"} -> {"interface", "Service"}
            [] tpl \in {"service-impl", "standalone-service-impl"} -> {"@Service", "Service"}
            [] tpl \in {"controller", "standalone-controller"} -> {"@RestController"}
            [] OTHER -> {})

GenerateFromTemplate(tpl, data) == [text |-> TemplateText(tpl, data), tpl |-> tpl, data |-> data]

\* a hand-written file
Written(text) == [text |-> text, tpl |-> "none", data |-> NoData]

Includes(content, sub) == sub \in content.text

-----------------------------------------------------------------------------
(* ResourceGenerator *)

\* A request: name is the text of a plain string name, or of the name field
\* of a {name, isEntityBased} object when structured is TRUE.
Request(name, structured, isEntityBased, type, module, idType) ==
    [name |-> name, structured |-> structured, isEntityBased |-> isEntityBased,
     type |-> type, module |-> module, idType |-> idType]

Write(f, content) == [file |-> f, content |-> content]

\* normal return {createdFiles}: the writes performed, in order
Ok(writes, data) ==
    [status |-> "ok", error |-> "none", msgName |-> <<>>, msgModule |-> <<>>,
     createdFiles |-> [i \in 1..Len(writes) |-> writes[i].file],
     writes |-> writes, data |-> data]

\* a thrown error; nothing was written before the throw
Err(kind, name, module) ==
    [status |-> "error", error |-> kind, msgName |-> name, msgModule |-> module,
     createdFiles |-> <<>>, writes |-> <<>>, data |-> NoData]

\* variant: the identifier type read from the entity marker instead of "UUID"
IsUUIDFromMarker(entityContent) == Includes(entityContent, "@Entity")

\* entityContent.includes('UUID')
IsUUID(entityContent) == Includes(entityContent, "UUID")

IdTypeOf(isUUID) == IF isUUID THEN "UUID" ELSE "Long"

\* options.idType?.toUpperCase()
ToUpperCase(t) ==
    CASE t = "uuid" -> "UUID"
      [] t = "serial" -> "SERIAL"
      [] t = "long" -> "LONG"
      [] t = "bogus" -> "BOGUS"
      [] OTHER -> t

GenerateRepository(fs, name, m) ==
    LET entityName == ReplaceFirst(name, "Repository")
        entityPath == EntityFile(m, entityName)
    IN IF ~PathExists(fs, entityPath)
       THEN Err("EntityNotFound", entityName, m)
       ELSE LET isUUID == IsUUID(fs[entityPath])
                data == [NoData EXCEPT !.module = m, !.name = entityName,
                                       !.idType = IdTypeOf(isUUID), !.isUUID = isUUID]
            IN Ok(<<Write(RepositoryFile(m, entityName),
                          GenerateFromTemplate("repository", data))>>, data)

UseTransactional(config) ==
    IF config.useTransactional = "undefined" THEN TRUE
    ELSE config.useTransactional = "true"

GenerateEntityBasedService(fs, config, name, m) ==
    LET entityName == ReplaceFirst(name, "Service")
        entityPath == EntityFile(m, entityName)
        repositoryPath == RepositoryFile(m, entityName)
    IN IF ~PathExists(fs, entityPath)
       THEN Err("EntityNotFound", entityName, m)
       ELSE IF ~PathExists(fs, repositoryPath)
       THEN Err("RepositoryNotFound", entityName, m)
       ELSE LET isUUID == IsUUID(fs[entityPath])
                data == [NoData EXCEPT !.module = m, !.name = entityName,
                                       !.idType = IdTypeOf(isUUID), !.isUUID = isUUID,
                                       !.useTransactional = UseTransactional(config)]
            IN Ok(<<Write(ServiceFile(m, entityName), GenerateFromTemplate("service", data)),
                    Write(ServiceImplFile(m, entityName),
                          GenerateFromTemplate("service-impl", data))>>, data)

\* variant: the implementation written and returned before the interface
GenerateStandaloneServiceImplFirst(config, serviceName, m) ==
    LET baseServiceName == ReplaceFirst(serviceName, "Service")
        data == [NoData EXCEPT !.module = m, !.name = baseServiceName,
                               !.useTransactional = UseTransactional(config)]
    IN Ok(<<Write(ServiceImplFile(m, baseServiceName),
                  GenerateFromTemplate("standalone-service-impl", data)),
            Write(ServiceFile(m, baseServiceName),
                  GenerateFromTemplate("standalone-service", data))>>, data)

GenerateStandaloneService(config, serviceName, m) ==
    LET baseServiceName == ReplaceFirst(serviceName, "Service")
        data == [NoData EXCEPT !.module = m, !.name = baseServiceName,
                               !.useTransactional = UseTransactional(config)]
    IN Ok(<<Write(ServiceFile(m, baseServiceName),
                  GenerateFromTemplate("standalone-service", data)),
            Write(ServiceImplFile(m, baseServiceName),
                  GenerateFromTemplate("standalone-service-impl", data))>>, data)

\* const { name, isEntityBased } = resourceDetails: both are undefined when
\* resourceDetails is a string, and serviceName.replace then throws a TypeError
GenerateService(fs, config, req) ==
    IF ~req.structured THEN Err("TypeError", <<>>, <<>>)
    ELSE IF req.isEntityBased THEN GenerateEntityBasedService(fs, config, req.name, req.module)
    ELSE GenerateStandaloneService(config, req.name, req.module)

\* variant: a missing entity file is read as an entity without a UUID
GenerateEntityBasedControllerAnyEntity(fs, entityName, m) ==
    LET servicePath == ServiceFile(m, entityName)
        entityPath == EntityFile(m, entityName)
    IN IF ~PathExists(fs, servicePath)
       THEN Err("ServiceNotFound", entityName, m)
       ELSE LET isUUID == PathExists(fs, entityPath) /\ IsUUID(fs[entityPath])
                data == [NoData EXCEPT !.module = m, !.name = entityName,
                                       !.idType = IdTypeOf(isUUID), !.isUUID = isUUID]
            IN Ok(<<Write(ControllerFile(m, entityName),
                          GenerateFromTemplate("controller", data))>>, data)

GenerateEntityBasedController(fs, entityName, m) ==
    LET servicePath == ServiceFile(m, entityName)
        entityPath == EntityFile(m, entityName)
    IN IF ~PathExists(fs, servicePath)
       THEN Err("ServiceNotFound", entityName, m)
       \* fs.readFile(entityPath) without an existence check: rejects with ENOENT
       ELSE IF ~PathExists(fs, entityPath)
       THEN Err("ENOENT", entityName, m)
       ELSE LET isUUID == IsUUID(fs[entityPath])
                data == [NoData EXCEPT !.module = m, !.name = entityName,
                                       !.idType = IdTypeOf(isUUID), !.isUUID = isUUID]
            IN Ok(<<Write(ControllerFile(m, entityName),
                          GenerateFromTemplate("controller", data))>>, data)

GenerateStandaloneController(controllerName, m) ==
    LET baseName == ReplaceFirst(controllerName, "Controller")
        data == [NoData EXCEPT !.module = m, !.name = baseName]
    IN Ok(<<Write(ControllerFile(m, baseName),
                  GenerateFromTemplate("standalone-controller", data))>>, data)

\* same destructuring as generateService
GenerateController(fs, req) ==
    IF ~req.structured THEN Err("TypeError", <<>>, <<>>)
    ELSE IF req.isEntityBased THEN GenerateEntityBasedController(fs, req.name, req.module)
    ELSE GenerateStandaloneController(req.name, req.module)

GenerateEntity(config, name, m, idTypeOption) ==
    LET idType == IF idTypeOption # "undefined" THEN ToUpperCase(idTypeOption)
                  ELSE IF config.defaultIdType # "undefined" THEN config.defaultIdType
                  ELSE "UUID"
        data == [NoData EXCEPT !.module = m, !.name = name,
                               !.idType = IF idType = "UUID" THEN "UUID" ELSE "Long",
                               !.idGenerationType = IF idType = "UUID" THEN "UUID" ELSE "IDENTITY",
                               !.isUUID = (idType = "UUID")]
    IN Ok(<<Write(EntityFile(m, PascalName(name)), GenerateFromTemplate("entity", data))>>, data)

\* ResourceGenerator.generate: the switch on the resource type.  A structured
\* name reaching generateEntity / generateRepository makes name.split /
\* name.replace throw a TypeError.
Generate(fs, config, req) ==
    CASE req.type = "entity" ->
            IF req.structured THEN Err("TypeError", <<>>, <<>>)
            ELSE GenerateEntity(config, req.name, req.module, req.idType)
      [] req.type = "repository" ->
            IF req.structured THEN Err("TypeError", <<>>, <<>>)
            ELSE GenerateRepository(fs, req.name, req.module)
      [] req.type = "service" -> GenerateService(fs, config, req)
      [] req.type = "controller" -> GenerateController(fs, req)
      [] OTHER -> Err("NotImplemented", <<>>, <<>>)

-----------------------------------------------------------------------------
(* ModuleGenerator *)

RECURSIVE FolderPaths(_, _, _)
\* the inner loop over layerConfig.folders: the folder, then its nested
\* "implementations" directory for 'services' and 'mappers'
FolderPaths(layerPath, folders, i) ==
    IF i > Len(folders) THEN <<>>
    ELSE LET folderPath == Append(layerPath, folders[i])
         IN <<folderPath>>
            \o (IF folders[i] \in {"services", "mappers"}
                THEN <<Append(folderPath, "implementations")>> ELSE <<>>)
            \o FolderPaths(layerPath, folders, i + 1)

RECURSIVE LayerPaths(_, _, _)
\* the outer loop over Object.entries(config.moduleStructure.layers)
LayerPaths(moduleBasePath, layers, i) ==
    IF i > Len(layers) THEN <<>>
    ELSE (IF layers[i].enabled
          THEN LET layerPath == Append(moduleBasePath, layers[i].name)
               IN <<layerPath>> \o FolderPaths(layerPath, layers[i].folders, 1)
          ELSE <<>>)
         \o LayerPaths(moduleBasePath, layers, i + 1)

\* variant: the module base directory is not listed
CreatedPathsWithoutBase(config, moduleName) ==
    LayerPaths(<<moduleName>>, config.layers, 1)

\* createdPaths collects every path passed to fs.ensureDir, in call order
CreatedPaths(config, moduleName) ==
    <<(<<moduleName>>)>> \o LayerPaths(<<moduleName>>, config.layers, 1)

RECURSIVE EnsureAll(_, _, _)
EnsureAll(ds, paths, i) ==
    IF i > Len(paths) THEN ds
    ELSE EnsureAll(EnsureDir(ds, paths[i]), paths, i + 1)

\* variant: createdPaths lists only the directories that did not exist yet
ModuleGenerateNewOnly(ds, config, moduleName) ==
    LET createdPaths == CreatedPaths(config, moduleName)
    IN [moduleName |-> moduleName, basePath |-> <<moduleName>>,
        createdPaths |-> SelectSeq(createdPaths, LAMBDA d : d \notin ds),
        dirs |-> EnsureAll(ds, createdPaths, 1)]

\* ModuleGenerator.generate: {moduleName, basePath, createdPaths} and the directories on disk
ModuleGenerate(ds, config, moduleName) ==
    LET createdPaths == CreatedPaths(config, moduleName)
    IN [moduleName |-> moduleName, basePath |-> <<moduleName>>,
        createdPaths |-> createdPaths, dirs |-> EnsureAll(ds, createdPaths, 1)]

-----------------------------------------------------------------------------
(* ResourceScanner *)

\* null when the content has no @Mapper
DetermineMapperType(content) ==
    IF ~Includes(content, "@Mapper") THEN "null"
    ELSE IF Includes(content, "@Mapper(componentModel = \"spring\")") THEN "mapstruct-spring"
    ELSE "mapstruct"

\* variant: the @Service test made before the @Entity / @Table test
DetermineResourceTypeServiceFirst(content, fileName) ==
    IF Includes(content, "public enum") THEN "enum"
    ELSE IF Includes(content, "@Service") THEN "service"
    ELSE IF Includes(content, "@Entity") \/ Includes(content, "@Table") THEN "entity"
    ELSE IF Includes(content, "@Controller") \/ Includes(content, "@RestController")
         THEN "controller"
    ELSE IF Includes(content, "@Repository") THEN "repository"
    ELSE IF EndsWith(fileName, "DTO") \/ EndsWith(fileName, "Dto") THEN "dto"
    ELSE IF DetermineMapperType(content) # "null" THEN "mapper"
    ELSE IF Includes(content, "interface") /\ Includes(content, "Repository") THEN "repository"
    ELSE IF Includes(content, "interface") /\ Includes(content, "Service") THEN "service"
    ELSE IF Includes(content, "interface") /\ Contains(fileName, "Mapper") THEN "mapper"
    ELSE "unknown"

DetermineResourceType(content, fileName) ==
    IF Includes(content, "public enum") THEN "enum"
    ELSE IF Includes(content, "@Entity") \/ Includes(content, "@Table") THEN "entity"
    ELSE IF Includes(content, "@Service") THEN "service"
    ELSE IF Includes(content, "@Controller") \/ Includes(content, "@RestController")
         THEN "controller"
    ELSE IF Includes(content, "@Repository") THEN "repository"
    ELSE IF EndsWith(fileName, "DTO") \/ EndsWith(fileName, "Dto") THEN "dto"
    ELSE IF DetermineMapperType(content) # "null" THEN "mapper"
    ELSE IF Includes(content, "interface") /\ Includes(content, "Repository") THEN "repository"
    ELSE IF Includes(content, "interface") /\ Includes(content, "Service") THEN "service"
    ELSE IF Includes(content, "interface") /\ Contains(fileName, "Mapper") THEN "mapper"
    ELSE "unknown"

\* analyzeJavaFile on a readable file; interfaceName is <<>> for null
AnalyzeJavaFile(f, content) ==
    LET isImplementation == EndsWith(f.name, "Impl")
    IN [name |-> f.name,
        type |-> DetermineResourceType(content, f.name),
        path |-> f,
        isImplementation |-> isImplementation,
        interfaceName |-> IF isImplementation THEN ReplaceFirst(f.name, "Impl") ELSE <<>>,
        mapperType |-> DetermineMapperType(content)]

\* variant: every file keyed by its own name
KeyOfOwnName(resource) == resource.name

\* resource.interfaceName || resource.name (null and '' are both falsy)
KeyOf(resource) ==
    IF resource.interfaceName # <<>> THEN resource.interfaceName ELSE resource.name

\* variant: a merged implementation also overwrites the recorded type
UpsertTypeOfLast(resourceMap, resource) ==
    LET key == KeyOf(resource)
        hit == {i \in 1..Len(resourceMap) : resourceMap[i].name = key}
    IN IF hit = {}
       THEN Append(resourceMap,
                   [name |-> key, type |-> resource.type, path |-> resource.path,
                    implementation |-> IF resource.isImplementation THEN resource.name ELSE <<>>,
                    mapperType |-> resource.mapperType])
       ELSE IF resource.isImplementation
       THEN [i \in 1..Len(resourceMap) |->
                IF i \in hit THEN [resourceMap[i] EXCEPT !.implementation = resource.name,
                                                          !.type = resource.type]
                ELSE resourceMap[i]]
       ELSE resourceMap

\* one step of validResources.forEach; the Map is a sequence in insertion order
Upsert(resourceMap, resource) ==
    LET key == KeyOf(resource)
        hit == {i \in 1..Len(resourceMap) : resourceMap[i].name = key}
    IN IF hit = {}
       THEN Append(resourceMap,
                   [name |-> key, type |-> resource.type, path |-> resource.path,
                    implementation |-> IF resource.isImplementation THEN resource.name ELSE <<>>,
                    mapperType |-> resource.mapperType])
       ELSE IF resource.isImplementation
       THEN [i \in 1..Len(resourceMap) |->
                IF i \in hit THEN [resourceMap[i] EXCEPT !.implementation = resource.name]
                ELSE resourceMap[i]]
       ELSE resourceMap

RECURSIVE Merge(_, _, _)
Merge(resourceMap, analysed, i) ==
    IF i > Len(analysed) THEN resourceMap
    ELSE Merge(Upsert(resourceMap, analysed[i]), analysed, i + 1)

\* a listed file: its path, its content, and whether fs.readFile succeeds on it
ListedFile(f, content, readable) == [file |-> f, content |-> content, readable |-> readable]

\* the null analyzeJavaFile returns from its catch block
Null ==
    [name |-> <<>>, type |-> "null", path |-> File(<<>>, <<>>), isImplementation |-> FALSE,
     interfaceName |-> <<>>, mapperType |-> "null"]

\* analyzeJavaFile: a failed read is logged and null is returned
AnalyzeListed(e) == IF e.readable THEN AnalyzeJavaFile(e.file, e.content) ELSE Null

\* allResources.filter(r => r !== null)
ValidResources(allResources) == SelectSeq(allResources, LAMBDA r : r # Null)

\* ResourceScanner.scan over the .java files of a layer in traversal order;
\* listing is the sequence of files getAllFiles returned
ScanResources(listing) ==
    Merge(<<>>, ValidResources([i \in 1..Len(listing) |-> AnalyzeListed(listing[i])]), 1)

-----------------------------------------------------------------------------
(* The disk above the base package directory *)

\* an absolute path is the sequence of its directory names, <<>> being the
\* filesystem root
Ancestry == <<"home", "app", "work", "api">>

PathOfDepth(k) == SubSeq(Ancestry, 1, k)

\* path.dirname
Dirname(p) == SubSeq(p, 1, Len(p) - 1)

BuildFiles == {"pom.xml", "build.gradle", "build.gradle.kts"}

BuildFile(dir, name) == [dir |-> dir, name |-> name]

\* possiblePaths of findJavaSourcePath, in order
PossiblePaths == <<<<"src", "main", "java">>, <<"app", "src", "main", "java">>>>

\* a file of a source tree: the tree it lies in, its directory relative to
\* the tree, its name and whether its text contains @SpringBootApplication
MainFile(tree, dir, name, annotated) ==
    [tree |-> tree, dir |-> dir, name |-> name, annotated |-> annotated]

DemoApplication == <<"Demo", "Application", ".java">>
ApplicationConfig == <<"Application", "Config", ".java">>

\* cwd: process.cwd(); markers: the build files of its ancestors; project:
\* the directory holding the source trees; trees: the source trees that
\* exist under it; mains: their candidate main classes
Disk(cwd, markers, projectDir, trees, mains) ==
    [cwd |-> cwd, markers |-> markers, project |-> projectDir, trees |-> trees,
     mains |-> mains]

OkDisk ==
    Disk(PathOfDepth(1), {BuildFile(PathOfDepth(1), "pom.xml")}, PathOfDepth(1),
         {PossiblePaths[1]},
         {MainFile(PossiblePaths[1], <<"com", "acme">>, DemoApplication, TRUE)})

NoSourceDisk == [OkDisk EXCEPT !.trees = {}, !.mains = {}]

NoMainDisk == [OkDisk EXCEPT !.mains = {}]

\* a disk on which the project scan ends as the value of project says
DiskFor(proj) ==
    CASE proj = "noSource" -> NoSourceDisk
      [] proj = "noMain" -> NoMainDisk
      [] OTHER -> OkDisk

-----------------------------------------------------------------------------
(* Inputs and initial file systems *)

Sales == <<"s">>

Order == <<"Order">>
Invoice == <<"Invoice">>
OrderRepository == <<"Order", "Repository">>
OrderService == <<"Order", "Service">>
OrderServiceImpl == <<"Order", "Service", "Impl">>
OrderController == <<"Order", "Controller">>

\* hand-written files a project may contain before the tool runs
SeedContents(f) ==
    IF f.dir = <<Sales, "domain", "entities">>
    THEN IF f.name = Order
         THEN {Written({"@Entity", "UUID"}), Written({"@Entity"})}
         ELSE {Written({"@Entity"})}
    ELSE IF f = RepositoryFile(Sales, Order)
    THEN {Written({"interface", "Repository"})}
    ELSE {Written({"interface", "Service"})}

\* the file systems holding some of the files of seedFiles
SeedFileSystems(seedFiles) ==
    UNION {{fs \in [S -> UNION {SeedContents(f) : f \in S}] :
                \A f \in S : fs[f] \in SeedContents(f)} : S \in SUBSET seedFiles}

GenSeedFiles ==
    {EntityFile(Sales, Order), RepositoryFile(Sales, Order), ServiceFile(Sales, Order)}

DirsOf(fs) == UNION {Ancestors(f.dir) : f \in DOMAIN fs}

NoRequest == Request(<<>>, FALSE, FALSE, "none", <<>>, "undefined")

NoResult ==
    [op |-> "none", req |-> NoRequest, status |-> "none", error |-> "none",
     msgName |-> <<>>, msgModule |-> <<>>, createdFiles |-> <<>>, data |-> NoData,
     moduleName |-> <<>>, config |-> DefaultConfig, createdPaths |-> <<>>,
     repeat |-> FALSE, overwrote |-> FALSE, raisedBy |-> "none", exitCode |-> 0,
     args |-> [name |-> <<>>, module |-> <<>>, type |-> "undefined", idtype |-> "undefined"],
     modules |-> {}, history |-> <<>>,
     root |-> <<>>, sourcePath |-> <<>>, basePackage |-> <<>>, basePackagePath |-> <<>>,
     structure |-> <<>>, phases |-> <<>>, returned |-> FALSE]

GenNames == {Order, Invoice}
GenTypes == {"entity", "repository", "service", "controller", "full"}
IdTypeOptions == {"undefined", "uuid", "serial", "bogus"}

\* requests given to ResourceGenerator.generate: a string name with any
\* type, a {name, isEntityBased} object with the types that take one (and
\* with one that does not); idType matters to entities only
Requests ==
    {Request(n, FALSE, FALSE, t, Sales, "undefined") : n \in GenNames, t \in GenTypes}
    \cup {Request(n, TRUE, eb, t, Sales, "undefined") :
             n \in GenNames, eb \in BOOLEAN, t \in {"service", "controller"}}
    \cup {Request(n, FALSE, FALSE, "entity", Sales, i) : n \in GenNames, i \in IdTypeOptions}
    \cup {Request(Order, TRUE, FALSE, "entity", Sales, "undefined"),
          Request(OrderService, TRUE, FALSE, "service", Sales, "undefined"),
          Request(OrderController, TRUE, FALSE, "controller", Sales, "undefined")}

\* the configurations that can make a difference to a request: the
\* configuration is read only by generateEntity when no idType option is
\* given and by the two service generators
ConfigsFor(req) ==
    IF \/ req.type = "entity" /\ ~req.structured /\ req.idType = "undefined"
       \/ req.type = "service" /\ req.structured
    THEN Configs ELSE {DefaultConfig}

\* module names given to ModuleGenerator.generate
GenModuleNames == {Sales, <<"s", "1">>}

-----------------------------------------------------------------------------
(* Generator API: ResourceGenerator.generate and ModuleGenerator.generate   *)
(* called on a project whose files were scanned                            *)

InitGen ==
    /\ project = "ok"
    /\ files \in SeedFileSystems(GenSeedFiles)
    /\ dirs = DirsOf(files)
    /\ configFile = NoConfigFile
    /\ result = NoResult
    /\ steps = 0
    /\ layerFiles = <<>>
    /\ completed = <<>>
    /\ disk = DiskFor(project)
    /\ records = <<>>

\* new ResourceGenerator(projectStructure, config).generate(req)
GenerateResource(req, config) ==
    /\ steps < MaxSteps
    /\ LET out == Generate(files, config, req)
       IN /\ files' = FilesAfter(files, out.writes, 1)
          /\ dirs' = DirsAfter(dirs, out.writes, 1)
          /\ result' = [NoResult EXCEPT !.op = "generate", !.req = req,
                            !.status = out.status, !.error = out.error,
                            !.msgName = out.msgName, !.msgModule = out.msgModule,
                            !.createdFiles = out.createdFiles, !.data = out.data,
                            !.config = config,
                            \* whether a target file existed before the call
                            !.overwrote = \E i \in 1..Len(out.writes) :
                                             out.writes[i].file \in DOMAIN files]
    /\ steps' = steps + 1
    /\ UNCHANGED <<project, disk, configFile, layerFiles, completed, records>>

\* new ModuleGenerator(projectStructure, config).generate(moduleName)
GenerateModule(moduleName, config) ==
    /\ steps < MaxSteps
    /\ LET out == ModuleGenerate(dirs, config, moduleName)
       IN /\ dirs' = out.dirs
          /\ result' = [NoResult EXCEPT !.op = "module", !.status = "ok",
                            !.moduleName = out.moduleName, !.config = config,
                            !.createdPaths = out.createdPaths,
                            !.repeat = (result.op = "module"
                                        /\ result.moduleName = moduleName
                                        /\ result.config = config)]
    /\ steps' = steps + 1
    /\ UNCHANGED <<project, disk, files, configFile, layerFiles, completed, records>>

NextGen ==
    \/ \E req \in Requests : \E config \in ConfigsFor(req) : GenerateResource(req, config)
    \/ \E m \in GenModuleNames, config \in Configs : GenerateModule(m, config)

SpecGen == InitGen /\ [][NextGen]_vars

-----------------------------------------------------------------------------
(* Generator API, a resource stack built call by call in an empty module    *)

OrderInvoice == <<"Order", " ", "Invoice">>

\* resource names the name pattern accepts
ChainNames == {n \in {Order, OrderInvoice} : ResourceNamePattern(n)}

\* the four calls of a stack for one name
ChainRequests ==
    {Request(n, FALSE, FALSE, t, Sales, "undefined") :
        n \in ChainNames, t \in {"entity", "repository"}}
    \cup {Request(n, TRUE, TRUE, t, Sales, "undefined") :
             n \in ChainNames, t \in {"service", "controller"}}

Call(req, status) == [req |-> req, status |-> status]

InitChain ==
    /\ project = "ok"
    /\ files = <<>>
    /\ dirs = {<<Sales>>}
    /\ configFile = NoConfigFile
    /\ result = NoResult
    /\ steps = 0
    /\ layerFiles = <<>>
    /\ completed = <<>>
    /\ disk = DiskFor(project)
    /\ records = <<>>

\* generate(req) on the same ResourceGenerator; result.history lists the
\* calls made so far with their outcomes
GenerateInChain(req) ==
    /\ steps < MaxChainSteps
    /\ LET out == Generate(files, DefaultConfig, req)
       IN /\ files' = FilesAfter(files, out.writes, 1)
          /\ dirs' = DirsAfter(dirs, out.writes, 1)
          /\ result' = [NoResult EXCEPT !.op = "generate", !.req = req,
                            !.status = out.status, !.error = out.error,
                            !.msgName = out.msgName, !.msgModule = out.msgModule,
                            !.createdFiles = out.createdFiles,
                            !.history = Append(result.history, Call(req, out.status))]
    /\ steps' = steps + 1
    /\ UNCHANGED <<project, disk, configFile, layerFiles, completed, records>>

NextChain == \E req \in ChainRequests : GenerateInChain(req)

SpecChain == InitChain /\ [][NextChain]_vars

-----------------------------------------------------------------------------
(* ProjectScanner / ModuleScanner, as far as the create command reads them *)

\* item.toLowerCase() on a directory name
ToLowerCase(t) ==
    CASE t = "Domain" -> "domain"
      [] t = "Entity" -> "entity"
      [] OTHER -> t

LayerNames == {"application", "domain", "infrastructure"}

\* PathResolver.findJavaSourcePath and ProjectScanner.findBasePackage
ScanError(proj) ==
    CASE proj = "noSource" -> "SourceNotFound"
      [] proj = "noMain" -> "MainClassNotFound"
      [] OTHER -> "none"

\* variant: the names of the children compared as they are spelled
IsValidModuleCaseSensitive(ds, modulePath) ==
    \E c \in ds : /\ Len(c) = Len(modulePath) + 1
                  /\ SubSeq(c, 1, Len(modulePath)) = modulePath
                  /\ c[Len(c)] \in LayerNames

\* ProjectScanner.isValidModule: some child of the directory is named like a layer
IsValidModule(ds, modulePath) ==
    \E c \in ds : /\ Len(c) = Len(modulePath) + 1
                  /\ SubSeq(c, 1, Len(modulePath)) = modulePath
                  /\ ToLowerCase(c[Len(c)]) \in LayerNames

\* ProjectScanner.findModules: names of the module directories
FindModules(ds) == {d[1] : d \in {x \in ds : Len(x) = 1 /\ IsValidModule(ds, x)}}

Entry(isDir, dir, name) == [isDir |-> isDir, dir |-> dir, name |-> name]

\* fs.readdir(dirPath, {withFileTypes: true})
ReadDir(ds, fs, d) ==
    {Entry(TRUE, x, <<>>) : x \in {y \in ds : Len(y) = Len(d) + 1 /\ SubSeq(y, 1, Len(d)) = d}}
    \cup {Entry(FALSE, f.dir, f.name) : f \in {g \in DOMAIN fs : g.dir = d}}

RECURSIVE Orderings(_)
\* the orders in which readdir may return a set of entries
Orderings(S) ==
    IF S = {} THEN {<<>>}
    ELSE UNION {{<<x>> \o p : p \in Orderings(S \ {x})} : x \in S}

RECURSIVE GetAllFiles(_, _, _)
RECURSIVE CollectEntries(_, _, _, _)
\* ResourceScanner.getAllFiles: every depth-first listing of the files below d
GetAllFiles(ds, fs, d) ==
    UNION {CollectEntries(ds, fs, p, 1) : p \in Orderings(ReadDir(ds, fs, d))}

\* the loop over the entries of one directory
CollectEntries(ds, fs, p, i) ==
    IF i > Len(p) THEN {<<>>}
    ELSE {a \o b :
            a \in (IF p[i].isDir THEN GetAllFiles(ds, fs, p[i].dir)
                   ELSE {<<ListedFile(File(p[i].dir, p[i].name),
                                      fs[File(p[i].dir, p[i].name)], TRUE)>>}),
            b \in CollectEntries(ds, fs, p, i + 1)}

\* ModuleScanner.scanLayer: null unless the layer directory exists
LayerExists(ds, m, layer) == <<m, layer>> \in ds

\* the listings ModuleScanner.scan may hand to the domain layer's resource scan
DomainListings(ds, fs, m) ==
    IF LayerExists(ds, m, "domain") THEN GetAllFiles(ds, fs, <<m, "domain">>) ELSE {<<>>}

\* getAvailableEntities: names of the type-entity resources of the domain layer
GetAvailableEntities(ds, modules, m, listing) ==
    IF m \notin modules \/ ~LayerExists(ds, m, "domain") THEN {}
    ELSE LET resources == ScanResources(listing)
         IN {resources[i].name : i \in {j \in 1..Len(resources) : resources[j].type = "entity"}}

-----------------------------------------------------------------------------
(* PathResolver and the whole of ProjectScanner.scan *)

HasBuildFile(d, dir) == \E n \in BuildFiles : BuildFile(dir, n) \in d.markers

RECURSIVE WalkUp(_, _)
\* the while loop of getProjectRootPath: it ends at the filesystem root
\* without looking into it, and the fallback is process.cwd()
WalkUp(d, currentPath) ==
    IF currentPath = <<>> THEN d.cwd
    ELSE IF HasBuildFile(d, currentPath) THEN currentPath
    ELSE WalkUp(d, Dirname(currentPath))

GetProjectRootPath(d) == WalkUp(d, d.cwd)

\* fs.existsSync on a candidate source path
ExistsSync(d, fullPath) == \E tree \in d.trees : fullPath = d.project \o tree

Found(p) == [found |-> TRUE, path |-> p]

NotFound == [found |-> FALSE, path |-> <<>>]

\* variant: the candidates tried from the last to the first
FindJavaSourcePathLastFirst(d) ==
    LET root == GetProjectRootPath(d)
        existing == {i \in 1..Len(PossiblePaths) : ExistsSync(d, root \o PossiblePaths[i])}
    IN IF existing = {} THEN NotFound
       ELSE Found(root \o PossiblePaths[CHOOSE i \in existing : \A j \in existing : j <= i])

\* findJavaSourcePath: the first candidate that exists, or it throws
FindJavaSourcePath(d) ==
    LET root == GetProjectRootPath(d)
        existing == {i \in 1..Len(PossiblePaths) : ExistsSync(d, root \o PossiblePaths[i])}
    IN IF existing = {} THEN NotFound
       ELSE Found(root \o PossiblePaths[CHOOSE i \in existing : \A j \in existing : i <= j])

\* file.name.endsWith('Application.java')
EndsWithApplicationJava(name) ==
    Len(name) >= 2 /\ name[Len(name) - 1] = "Application" /\ name[Len(name)] = ".java"

\* findMainClass: the files it may return; which one it meets first depends
\* on the order in which readdir lists each directory
FindMainClass(d, startPath) ==
    {f \in d.mains : /\ d.project \o f.tree = startPath
                     /\ EndsWithApplicationJava(f.name)
                     /\ f.annotated}

RECURSIVE Join(_, _)
\* Array.join
Join(parts, sep) ==
    IF Len(parts) = 0 THEN <<>>
    ELSE IF Len(parts) = 1 THEN <<parts[1]>>
    ELSE <<parts[1], sep>> \o Join(Tail(parts), sep)

\* variant: the source root itself named "."
ExtractBasePackageDotForRoot(mainClass) ==
    IF mainClass.dir = <<>> THEN <<".">> ELSE Join(mainClass.dir, ".")

\* extractBasePackage: path.relative(sourcePath, dirname) with the
\* separators replaced by dots; "" for the source root itself
ExtractBasePackage(mainClass) == Join(mainClass.dir, ".")

\* basePackage.split('.') / replace(/\./g, sep) followed by path.join, which
\* drops empty pieces
PackageSegments(basePackage) == SelectSeq(basePackage, LAMBDA t : t # ".")

GetBasePackagePath(sourcePath, basePackage) == sourcePath \o PackageSegments(basePackage)

\* moduleBasePath of the generators
ModuleBasePath(sourcePath, basePackage, moduleName) ==
    sourcePath \o PackageSegments(basePackage) \o <<moduleName>>

\* the names of the immediate subdirectories of a directory
Subdirectories(ds, d) ==
    {c[Len(c)] : c \in {x \in ds : Len(x) = Len(d) + 1 /\ SubSeq(x, 1, Len(d)) = d}}

\* the null scanLayer returns
NullLayer == [present |-> FALSE]

\* variant: a missing layer reported as an empty structure
LayerStructureNeverNull(ds, m, layer, resources) ==
    IF ~LayerExists(ds, m, layer)
    THEN [present |-> TRUE, path |-> <<m, layer>>, directories |-> {}, resources |-> <<>>]
    ELSE [present |-> TRUE, path |-> <<m, layer>>,
          directories |-> Subdirectories(ds, <<m, layer>>), resources |-> resources]

\* scanLayer and the resources ModuleScanner.scan adds to a layer that is
\* not null; directories holds the names readdir listed
LayerStructure(ds, m, layer, resources) ==
    IF ~LayerExists(ds, m, layer) THEN NullLayer
    ELSE [present |-> TRUE, path |-> <<m, layer>>,
          directories |-> Subdirectories(ds, <<m, layer>>), resources |-> resources]

\* the listings the resource scan of a layer may work on
LayerListings(ds, fs, m, layer) ==
    IF LayerExists(ds, m, layer) THEN GetAllFiles(ds, fs, <<m, layer>>) ELSE {<<>>}

\* ModuleScanner.scan; listing gives the traversal of each layer
ModuleStructure(ds, m, listing) ==
    [name |-> m, path |-> <<m>>,
     layers |-> [layer \in LayerNames |->
                    LayerStructure(ds, m, layer, ScanResources(listing[<<m, layer>>]))]]

\* the traversals of all layers of all modules a scan may make
Traversals(ds, fs, modules) ==
    LET keys == {<<m, layer>> : m \in modules, layer \in LayerNames}
        all == UNION {LayerListings(ds, fs, k[1], k[2]) : k \in keys}
    IN {t \in [keys -> all] : \A k \in keys : t[k] \in LayerListings(ds, fs, k[1], k[2])}

\* the outcome of the scan as the commands see it
ProjectOf(d) ==
    LET src == FindJavaSourcePath(d)
    IN IF ~src.found THEN "noSource"
       ELSE IF FindMainClass(d, src.path) = {} THEN "noMain"
       ELSE "ok"

\* source trees and main classes a project directory may hold
MainDirs == {<<>>, <<"com", "acme">>}

MainFiles ==
    {MainFile(tree, dir, name, annotated) :
        tree \in {PossiblePaths[i] : i \in 1..Len(PossiblePaths)},
        dir \in MainDirs, name \in {DemoApplication, ApplicationConfig},
        annotated \in BOOLEAN}

TreeSets == SUBSET {PossiblePaths[i] : i \in 1..Len(PossiblePaths)}

\* disks differing in the working directory, the build files and the place
\* of the source trees
RootDisks ==
    {Disk(PathOfDepth(k), markers, PathOfDepth(j), trees,
          {MainFile(tree, <<"com", "acme">>, DemoApplication, TRUE) : tree \in trees}) :
        k \in 0..MaxDepth, j \in 0..MaxDepth, trees \in TreeSets,
        markers \in {mk \in SUBSET {BuildFile(PathOfDepth(i), n) :
                                       i \in 0..MaxDepth, n \in BuildFiles} :
                        Cardinality(mk) <= 2}}

\* a project below the working directory is out of the reach of the walk
ReachableRootDisks ==
    {d \in RootDisks : /\ Len(d.project) <= Len(d.cwd)
                       /\ \A b \in d.markers : Len(b.dir) <= Len(d.cwd)}

\* disks differing in the source trees and their main classes
SourceDisks ==
    {[OkDisk EXCEPT !.trees = trees, !.mains = mains] :
        trees \in TreeSets,
        mains \in {ms \in SUBSET MainFiles : Cardinality(ms) <= 2}}

ConsistentSourceDisks == {d \in SourceDisks : \A f \in d.mains : f.tree \in d.trees}

Store == <<"s", "1">>

\* directories a base package directory may hold
ProjectDirs ==
    {<<Sales>>, <<Sales, "domain">>, <<Sales, "domain", "entities">>, <<Sales, "Domain">>,
     <<Sales, "application">>, <<Sales, "util">>,
     <<Store>>, <<Store, "infrastructure">>, <<Store, "docs">>}

ProjectTrees == {ds \in SUBSET ProjectDirs : \A x \in ds : Ancestors(x) \subseteq ds}

InitProject ==
    /\ \/ /\ disk \in ReachableRootDisks \cup ConsistentSourceDisks
          /\ dirs = {<<Sales>>, <<Sales, "domain">>}
          /\ files = <<>>
       \/ /\ disk = OkDisk
          /\ dirs \in ProjectTrees
          /\ files \in SeedFileSystems({EntityFile(Sales, Order)} \cap
                                        {f \in {EntityFile(Sales, Order)} : f.dir \in dirs})
    /\ project = ProjectOf(disk)
    /\ configFile = NoConfigFile
    /\ result = NoResult
    /\ steps = 0
    /\ layerFiles = <<>>
    /\ completed = <<>>
    /\ records = <<>>

ScanResult(root, phases) ==
    [NoResult EXCEPT !.op = "scanProject", !.root = root, !.phases = phases]

\* new ProjectScanner().scan()
ScanProject ==
    /\ result.op = "none"
    /\ LET root == GetProjectRootPath(disk)
           src == FindJavaSourcePath(disk)
       IN IF ~src.found
          THEN result' = [ScanResult(root, <<"root", "source">>) EXCEPT
                             !.status = "error", !.error = "SourceNotFound"]
          ELSE IF FindMainClass(disk, src.path) = {}
          THEN result' = [ScanResult(root, <<"root", "source", "namespace">>) EXCEPT
                             !.status = "error", !.error = "MainClassNotFound",
                             !.sourcePath = src.path]
          ELSE \E mainClass \in FindMainClass(disk, src.path) :
               \E modulePaths \in Orderings(FindModules(dirs)) :
               \E listing \in Traversals(dirs, files, FindModules(dirs)) :
                  LET basePackage == ExtractBasePackage(mainClass)
                  IN result' =
                       [ScanResult(root, <<"root", "source", "namespace", "modules", "layers">>)
                          EXCEPT !.status = "ok", !.returned = TRUE,
                                 !.sourcePath = src.path,
                                 !.basePackage = basePackage,
                                 !.basePackagePath = GetBasePackagePath(src.path, basePackage),
                                 !.structure =
                                     [i \in 1..Len(modulePaths) |->
                                         ModuleStructure(dirs, modulePaths[i], listing)]]
    /\ steps' = steps + 1
    /\ UNCHANGED <<project, disk, dirs, files, configFile, layerFiles, completed, records>>

NextProject == ScanProject

SpecProject == InitProject /\ [][NextProject]_vars

-----------------------------------------------------------------------------
(* Properties of the generator API (SpecGen) *)

IsGenerate(r) == r.op = "generate"

IsEntityBased(req, type) == req.type = type /\ req.structured /\ req.isEntityBased

IsRepositoryRequest(req) == req.type = "repository" /\ ~req.structured

HasPrerequisite(req) ==
    IsRepositoryRequest(req) \/ IsEntityBased(req, "service") \/ IsEntityBased(req, "controller")

\* the prerequisite files the documentation names for a request
DocumentedPrerequisites(req) ==
    CASE IsRepositoryRequest(req) -> {EntityFile(req.module, req.name)}
      [] IsEntityBased(req, "service") ->
            {EntityFile(req.module, req.name), RepositoryFile(req.module, req.name)}
      [] IsEntityBased(req, "controller") -> {ServiceFile(req.module, req.name)}
      [] OTHER -> {}

\* the files the documentation says a request creates
DocumentedFiles(req) ==
    CASE IsRepositoryRequest(req) -> <<RepositoryFile(req.module, req.name)>>
      [] IsEntityBased(req, "service") ->
            <<ServiceFile(req.module, req.name), ServiceImplFile(req.module, req.name)>>
      [] IsEntityBased(req, "controller") -> <<ControllerFile(req.module, req.name)>>
      [] OTHER -> <<>>

MissingPrerequisiteErrors == {"EntityNotFound", "RepositoryNotFound", "ServiceNotFound"}

\* C1: for every resource kind with a prerequisite, generate fails with a
\* missing-prerequisite error and changes no file or directory when a
\* prerequisite file is absent, and succeeds returning exactly the documented
\* created files when the prerequisites are present.
C1_PrerequisiteDecidesOutcome ==
    [][(IsGenerate(result') /\ steps' = steps + 1 /\ HasPrerequisite(result'.req)) =>
          IF DocumentedPrerequisites(result'.req) \subseteq DOMAIN files
          THEN /\ result'.status = "ok"
               /\ result'.createdFiles = DocumentedFiles(result'.req)
          ELSE /\ result'.status = "error"
               /\ result'.error \in MissingPrerequisiteErrors
               /\ files' = files
               /\ dirs' = dirs]_vars

FullStack(m, n) ==
    <<EntityFile(m, n), RepositoryFile(m, n), ServiceFile(m, n),
      ServiceImplFile(m, n), ControllerFile(m, n)>>

\* C2: composite ("full") generation for one name, started on a module with
\* nothing pre-existing, succeeds and creates, in this order, the entity, the
\* repository, the service interface and implementation and the controller
\* at their conventional paths.
C2_FullGeneratesStack ==
    [][(IsGenerate(result') /\ steps' = steps + 1 /\ result'.req.type = "full"
        /\ DOMAIN files = {}) =>
          /\ result'.status = "ok"
          /\ result'.createdFiles = FullStack(result'.req.module, result'.req.name)
          /\ DOMAIN files' = {FullStack(result'.req.module, result'.req.name)[i] : i \in 1..5}]_vars

\* C5: whenever a repository, an entity-based service or an entity-based
\* controller has been generated against an entity file, the template data
\* has idType = UUID and isUUID = true if the entity file contains "UUID",
\* and idType = Long and isUUID = false otherwise.
C5_IdTypeFollowsEntity ==
    (IsGenerate(result) /\ result.status = "ok" /\ HasPrerequisite(result.req)) =>
        LET entity == EntityFile(result.req.module, result.data.name)
        IN /\ entity \in DOMAIN files
           /\ IF "UUID" \in files[entity].text
              THEN result.data.idType = "UUID" /\ result.data.isUUID
              ELSE result.data.idType = "Long" /\ ~result.data.isUUID

C5_Witness ==
    /\ IsGenerate(result) /\ result.status = "ok"
    /\ IsEntityBased(result.req, "controller")
    /\ ~result.data.isUUID
    /\ "@Entity" \in files[EntityFile(result.req.module, result.data.name)].text

\* C6: a second invocation of ModuleGenerator.generate with the same module
\* name and configuration raises no error, leaves the set of directories
\* unchanged and returns the same createdPaths as the first.
C6_ModuleGenerateIdempotent ==
    [][(result'.op = "module" /\ steps' = steps + 1 /\ result'.repeat) =>
          /\ result'.status = "ok"
          /\ dirs' = dirs
          /\ result'.createdPaths = result.createdPaths]_vars

C6_Witness == result.op = "module" /\ result.repeat /\ Len(result.createdPaths) > 1

IsStandalone(req, type) == req.type = type /\ req.structured /\ ~req.isEntityBased

\* the fixed suffix of a standalone name
Suffix(type) == IF type = "service" THEN "Service" ELSE "Controller"

\* C11: a standalone service or controller request is accepted only for a
\* name that ends with "Service" / "Controller"; for a name without that
\* suffix generate fails and writes no file.
C11_StandaloneNameNeedsSuffix ==
    [][(/\ IsGenerate(result') /\ steps' = steps + 1
        /\ \E t \in {"service", "controller"} : IsStandalone(result'.req, t)) =>
          IF EndsWith(result'.req.name, Suffix(result'.req.type))
          THEN result'.status = "ok"
          ELSE /\ result'.status = "error"
               /\ files' = files
               /\ dirs' = dirs]_vars

\* C12: every successful service generation, entity-based or standalone,
\* returns createdFiles = <interface, implementation> with the interface at
\* application/services/<X>Service.java and the implementation at
\* application/services/implementations/<X>ServiceImpl.java, writes these two
\* files and no other, and renders them from two distinct templates with the
\* same data record.  X is the request name without its "Service" suffix.
C12_ServiceWritesInterfaceAndImpl ==
    [][(/\ IsGenerate(result') /\ steps' = steps + 1
        /\ result'.req.type = "service" /\ result'.status = "ok") =>
          LET x == result'.data.name
              svc == ServiceFile(result'.req.module, x)
              impl == ServiceImplFile(result'.req.module, x)
          IN /\ result'.req.name \in {x, x \o <<"Service">>}
             /\ result'.createdFiles = <<svc, impl>>
             /\ DOMAIN files' = DOMAIN files \cup {svc, impl}
             /\ \A f \in DOMAIN files \ {svc, impl} : files'[f] = files[f]
             /\ files'[svc].tpl # "none"
             /\ files'[impl].tpl # "none"
             /\ files'[svc].tpl # files'[impl].tpl
             /\ files'[svc].data = result'.data
             /\ files'[impl].data = result'.data]_vars

C12_Witness ==
    /\ IsGenerate(result) /\ result.status = "ok"
    /\ IsStandalone(result.req, "service")
    /\ result.req.name = OrderService
    /\ result.createdFiles = <<ServiceFile(Sales, Order), ServiceImplFile(Sales, Order)>>

\* the name is of the shape its resource type takes: a plain string for an
\* entity or a repository, a {name, isEntityBased} object for a service or a
\* controller
WellFormed(req) ==
    \/ req.type \in {"entity", "repository"} /\ ~req.structured
    \/ req.type \in {"service", "controller"} /\ req.structured

\* the files a request cannot be generated without: the documented
\* prerequisites and, for an entity-based controller, the entity file from
\* which its identifier type is read
RequiredFiles(req) ==
    DocumentedPrerequisites(req)
    \cup (IF IsEntityBased(req, "controller") THEN {EntityFile(req.module, req.name)} ELSE {})

\* the templates a resource type is rendered from
TemplatesFor(type) ==
    CASE type = "entity" -> {"entity"}
      [] type = "repository" -> {"repository"}
      [] type = "service" ->
            {"service", "service-impl", "standalone-service", "standalone-service-impl"}
      [] type = "controller" -> {"controller", "standalone-controller"}
      [] OTHER -> {}

\* C13: a generate request whose required files are present succeeds whether
\* or not its target files already exist; afterwards every target file
\* exists, in an existing directory, and its content is the template output
\* of this request, whatever the file held before.
C13_WritesOverwrite ==
    [][(/\ IsGenerate(result') /\ steps' = steps + 1
        /\ WellFormed(result'.req)
        /\ RequiredFiles(result'.req) \subseteq DOMAIN files) =>
          /\ result'.status = "ok"
          /\ Len(result'.createdFiles) > 0
          /\ \A i \in 1..Len(result'.createdFiles) :
                LET f == result'.createdFiles[i]
                IN /\ f \in DOMAIN files'
                   /\ f.dir \in dirs'
                   /\ files'[f].tpl \in TemplatesFor(result'.req.type)
                   /\ files'[f].data = result'.data
                   /\ files'[f] = GenerateFromTemplate(files'[f].tpl, result'.data)]_vars

\* a hand-written service interface was replaced by a generated one
C13_Witness ==
    /\ IsGenerate(result) /\ result.status = "ok" /\ steps = 1
    /\ result.overwrote
    /\ IsEntityBased(result.req, "service")
    /\ files[ServiceFile(Sales, Order)].tpl = "service"

\* the identifier types an entity may be given, as the option is spelled
ClosedIdTypes == {"uuid", "serial"}

\* the identifier type the documentation gives an entity request
DocumentedIdType(req, config) ==
    IF req.idType # "undefined" THEN (IF req.idType = "uuid" THEN "UUID" ELSE "Long")
    ELSE IF config.defaultIdType # "undefined"
         THEN (IF config.defaultIdType = "UUID" THEN "UUID" ELSE "Long")
    ELSE "UUID"

\* C14: entity generation needs no other file and writes exactly one file,
\* domain/entities/<PascalName>.java; its identifier type is the idType
\* option, else the configuration default, else UUID; a request whose idType
\* is outside {UUID, the numeric surrogate} is rejected and writes nothing.
C14_EntityGeneration ==
    [][(/\ IsGenerate(result') /\ steps' = steps + 1
        /\ result'.req.type = "entity" /\ ~result'.req.structured) =>
          IF result'.req.idType \notin ClosedIdTypes \cup {"undefined"}
          THEN /\ result'.status = "error"
               /\ files' = files
               /\ dirs' = dirs
          ELSE LET f == EntityFile(result'.req.module, PascalName(result'.req.name))
               IN /\ result'.status = "ok"
                  /\ result'.createdFiles = <<f>>
                  /\ DOMAIN files' = DOMAIN files \cup {f}
                  /\ result'.data.idType = DocumentedIdType(result'.req, result'.config)
                  /\ files'[f].data = result'.data]_vars

\* positions of a path in a sequence of paths
Positions(paths, p) == {k \in 1..Len(paths) : paths[k] = p}

EnabledLayers(config) == {i \in 1..Len(config.layers) : config.layers[i].enabled}

\* the directories the documentation gives a module, for a configuration
DocumentedModuleDirs(config, m) ==
    {<<m>>}
    \cup {<<m, config.layers[i].name>> : i \in EnabledLayers(config)}
    \cup UNION {{<<m, config.layers[i].name, config.layers[i].folders[j]>> :
                    j \in 1..Len(config.layers[i].folders)} : i \in EnabledLayers(config)}
    \cup UNION {{<<m, config.layers[i].name, config.layers[i].folders[j], "implementations">> :
                    j \in {k \in 1..Len(config.layers[i].folders) :
                              config.layers[i].folders[k] \in {"services", "mappers"}}} :
                 i \in EnabledLayers(config)}

\* C16: createdPaths starts with the module base directory and lists, once
\* each, exactly the base directory, the directory of every enabled layer,
\* its configured folders and an "implementations" directory under each
\* folder named "services" or "mappers"; layers come in configuration order,
\* a layer directory before its folders, the folders in configured order, an
\* "implementations" directory immediately after its folder; nothing is
\* listed or created for a disabled layer; the directories on disk
\* afterwards are the previous ones and the listed ones.
C16_ModuleStructure ==
    [][(result'.op = "module" /\ steps' = steps + 1) =>
          LET m == result'.moduleName
              config == result'.config
              P == result'.createdPaths
              pos(p) == CHOOSE k \in Positions(P, p) : TRUE
          IN /\ P[1] = <<m>>
             /\ {P[k] : k \in 1..Len(P)} = DocumentedModuleDirs(config, m)
             /\ \A p \in DocumentedModuleDirs(config, m) : Cardinality(Positions(P, p)) = 1
             /\ dirs' = dirs \cup DocumentedModuleDirs(config, m)
             /\ \A i \in 1..Len(config.layers) :
                   ~config.layers[i].enabled =>
                      \A k \in 1..Len(P) : Len(P[k]) < 2 \/ P[k][2] # config.layers[i].name
             /\ \A i, j \in EnabledLayers(config) :
                   i < j => \A a, b \in 1..Len(P) :
                               (/\ Len(P[a]) >= 2 /\ P[a][2] = config.layers[i].name
                                /\ Len(P[b]) >= 2 /\ P[b][2] = config.layers[j].name) => a < b
             /\ \A i \in EnabledLayers(config) :
                   LET l == config.layers[i]
                   IN /\ \A j \in 1..Len(l.folders) :
                            /\ pos(<<m, l.name>>) < pos(<<m, l.name, l.folders[j]>>)
                            /\ l.folders[j] \in {"services", "mappers"} =>
                                  pos(<<m, l.name, l.folders[j], "implementations">>)
                                     = pos(<<m, l.name, l.folders[j]>>) + 1
                      /\ \A j, k \in 1..Len(l.folders) :
                            j < k => pos(<<m, l.name, l.folders[j]>>)
                                        < pos(<<m, l.name, l.folders[k]>>)]_vars

\* a module generated from a configuration with a disabled layer
C16_Witness ==
    /\ result.op = "module" /\ result.status = "ok"
    /\ \E i \in 1..Len(result.config.layers) : ~result.config.layers[i].enabled
    /\ <<result.moduleName, "application", "services", "implementations">> \in dirs
    /\ Len(result.createdPaths) = 5

\* C30: an entity-based controller call writes its controller file only
\* when the service file application/services/<Name>Service.java and the
\* entity file domain/entities/<Name>.java both exist at the time of the
\* call; when either is missing the call fails and leaves files and
\* directories unchanged.
C30_ControllerNeedsServiceAndEntity ==
    [][(/\ IsGenerate(result') /\ steps' = steps + 1
        /\ IsEntityBased(result'.req, "controller")) =>
          LET m == result'.req.module
              n == result'.req.name
              both == {ServiceFile(m, n), EntityFile(m, n)} \subseteq DOMAIN files
          IN /\ (files' # files \/ result'.status = "ok") => both
             /\ ~both => /\ result'.status = "error"
                         /\ files' = files
                         /\ dirs' = dirs]_vars

\* the service exists, the entity does not: the call failed
C30_Witness ==
    /\ IsGenerate(result) /\ IsEntityBased(result.req, "controller")
    /\ result.status = "error"
    /\ ServiceFile(Sales, result.req.name) \in DOMAIN files
    /\ EntityFile(Sales, result.req.name) \notin DOMAIN files
    /\ ControllerFile(Sales, result.req.name) \notin DOMAIN files

-----------------------------------------------------------------------------
(* Properties of a stack built call by call (SpecChain) *)

\* an earlier call of this type for this name succeeded
Succeeded(history, type, name) ==
    \E k \in 1..Len(history) :
        /\ history[k].status = "ok"
        /\ history[k].req.type = type
        /\ history[k].req.name = name

\* C29: for every name the pattern ^[A-Z][a-zA-Z0-9 ]*$ accepts, once
\* generate(entity N) has succeeded generate(repository N) succeeds; once
\* both have, entity-based generate(service N) succeeds; once all three
\* have, entity-based generate(controller N) succeeds.
C29_StackBuildsInOrder ==
    [][(IsGenerate(result') /\ steps' = steps + 1) =>
          LET r == result'.req
              h == result.history
          IN /\ (IsRepositoryRequest(r) /\ Succeeded(h, "entity", r.name)) =>
                    result'.status = "ok"
             /\ (/\ IsEntityBased(r, "service")
                 /\ Succeeded(h, "entity", r.name)
                 /\ Succeeded(h, "repository", r.name)) => result'.status = "ok"
             /\ (/\ IsEntityBased(r, "controller")
                 /\ Succeeded(h, "entity", r.name)
                 /\ Succeeded(h, "repository", r.name)
                 /\ Succeeded(h, "service", r.name)) => result'.status = "ok"]_vars

-----------------------------------------------------------------------------
(* Layer scan: ResourceScanner.scan on the files of one layer directory     *)

ScanDirs ==
    {<<Sales, "application", "services">>,
     <<Sales, "application", "services", "implementations">>}

ImplOrderImpl == <<"Impl", "Order", "Impl">>

ScanNames == {Order, OrderService, OrderServiceImpl, ImplOrderImpl}

\* the files a services layer may hold: interfaces and classes in services/,
\* classes in services/implementations/
ScanFiles ==
    {File(d, n) : d \in ScanDirs, n \in ScanNames} \
        {File(<<Sales, "application", "services">>, OrderServiceImpl),
         File(<<Sales, "application", "services">>, ImplOrderImpl),
         File(<<Sales, "application", "services", "implementations">>, OrderService)}

\* markers a source file may carry next to its own class name
ScanMarkers == {{}, {"interface"}, {"@Service"}, {"@Entity"}}

\* a Java source file declares a type of its own name, so its text contains
\* every piece of text its name contains
NameText(name) == {"Service"} \cap {name[i] : i \in 1..Len(name)}

\* a listed file is readable with some content, or fs.readFile fails on it
LayerEntries ==
    {ListedFile(f, Written(mk \cup NameText(f.name)), TRUE) : f \in ScanFiles, mk \in ScanMarkers}
    \cup {ListedFile(f, Written({}), FALSE) : f \in ScanFiles}

\* the results of getAllFiles: distinct files, in any traversal order
Listings ==
    UNION {{l \in [1..k -> LayerEntries] :
               \A i, j \in 1..k : i # j => l[i].file # l[j].file} : k \in 1..MaxLayerFiles}

InitScan ==
    /\ project = "ok"
    /\ layerFiles \in Listings
    /\ files = [f \in {layerFiles[i].file : i \in 1..Len(layerFiles)} |->
                   (CHOOSE e \in {layerFiles[i] : i \in 1..Len(layerFiles)} : e.file = f).content]
    /\ dirs = DirsOf(files)
    /\ configFile = NoConfigFile
    /\ result = NoResult
    /\ steps = 0
    /\ completed = <<>>
    /\ disk = DiskFor(project)
    /\ records = <<>>

\* new ResourceScanner().scan(layerPath)
ScanLayer ==
    /\ result.op = "none"
    /\ records' = ScanResources(layerFiles)
    /\ result' = [NoResult EXCEPT !.op = "scan", !.status = "ok"]
    /\ steps' = steps + 1
    /\ UNCHANGED <<project, disk, dirs, files, configFile, layerFiles, completed>>

NextScan == ScanLayer

SpecScan == InitScan /\ [][NextScan]_vars

-----------------------------------------------------------------------------
(* Layer scan, call by call: the analyzeJavaFile promises of one scan settle *)
(* in any order before Promise.all resolves                                  *)

Settled(i, resource) == [index |-> i, resource |-> resource]

\* variant: the results taken in the order in which the calls settled
PromiseAllInCompletionOrder(settled) ==
    [k \in 1..Len(settled) |-> settled[k].resource]

\* Promise.all: the results in the order of the calls, whatever the order
\* in which they settled
PromiseAll(settled) ==
    [i \in 1..Len(settled) |->
        (CHOOSE c \in {settled[k] : k \in 1..Len(settled)} : c.index = i).resource]

\* scan up to files.map(file => this.analyzeJavaFile(file)): every call is
\* started and awaits its fs.readFile
StartScan ==
    /\ result.op = "none"
    /\ result' = [NoResult EXCEPT !.op = "scanning"]
    /\ completed' = <<>>
    /\ UNCHANGED <<project, disk, dirs, files, configFile, steps, layerFiles, records>>

\* the readFile of call i returns (or fails) and the call settles
SettleAnalysis(i) ==
    /\ result.op = "scanning"
    /\ \A k \in 1..Len(completed) : completed[k].index # i
    /\ completed' = Append(completed, Settled(i, AnalyzeListed(layerFiles[i])))
    /\ UNCHANGED <<project, disk, dirs, files, configFile, result, steps, layerFiles, records>>

\* Promise.all resolves; the rest of scan runs without an await: filter,
\* forEach into resourceMap, Array.from(resourceMap.values())
CollectResources ==
    /\ result.op = "scanning"
    /\ Len(completed) = Len(layerFiles)
    /\ records' = Merge(<<>>, ValidResources(PromiseAll(completed)), 1)
    /\ result' = [NoResult EXCEPT !.op = "scan", !.status = "ok"]
    /\ steps' = steps + 1
    /\ UNCHANGED <<project, disk, dirs, files, configFile, layerFiles, completed>>

NextScanConcurrent ==
    \/ StartScan
    \/ \E i \in 1..Len(layerFiles) : SettleAnalysis(i)
    \/ CollectResources

SpecScanConcurrent == InitScan /\ [][NextScanConcurrent]_vars

-----------------------------------------------------------------------------
(* Layer scan of one file of any content: the classification of a file *)

SpringMapper == "@Mapper(componentModel = \"spring\")"

\* the pieces of text determineResourceType and determineMapperType look for
ClassifyMarkers ==
    {"public enum", "@Entity", "@Table", "@Service", "@Controller", "@RestController",
     "@Repository", "@Mapper", SpringMapper, "interface", "Repository", "Service"}

\* a text that contains a marker contains every marker that is part of it
SubMarkers(mk) ==
    CASE mk = "@Repository" -> {"@Repository", "Repository"}
      [] mk = "@Service" -> {"@Service", "Service"}
      [] mk = SpringMapper -> {SpringMapper, "@Mapper"}
      [] OTHER -> {mk}

ClassifyNames ==
    {Order, OrderService, OrderRepository, <<"Order", "Dto">>, <<"Order", "DTO">>,
     <<"Order", "dto">>, <<"Order", "Mapper">>, <<"Mapper", "Config">>}

\* a source file declares a type of its own name
ClassifyNameText(name) == {"Service", "Repository"} \cap {name[i] : i \in 1..Len(name)}

ClassifyContents(name) ==
    {Written(UNION {SubMarkers(mk) : mk \in chosen} \cup ClassifyNameText(name)) :
        chosen \in {c \in SUBSET ClassifyMarkers : Cardinality(c) <= MaxMarkers}}

InitClassify ==
    /\ project = "ok"
    /\ \E name \in ClassifyNames : \E content \in ClassifyContents(name) :
          layerFiles = <<ListedFile(File(<<Sales, "application">>, name), content, TRUE)>>
    /\ files = [f \in {layerFiles[1].file} |-> layerFiles[1].content]
    /\ dirs = DirsOf(files)
    /\ configFile = NoConfigFile
    /\ result = NoResult
    /\ steps = 0
    /\ completed = <<>>
    /\ disk = DiskFor(project)
    /\ records = <<>>

SpecClassify == InitClassify /\ [][NextScan]_vars

-----------------------------------------------------------------------------
(* Properties of the layer scan (SpecScan) *)

Scanned == result.op = "scan"

\* the type analyzeJavaFile gives a file it can read
TypeOfFile(e) == IF e.readable THEN DetermineResourceType(e.content, e.file.name) ELSE "null"

\* the layer holds the interface OrderService.java and the implementation
\* OrderServiceImpl.java, each classified as a service, and no other file of
\* either name
PairInLayer ==
    \E i, j \in 1..Len(layerFiles) :
        /\ layerFiles[i].file.name = OrderService
        /\ layerFiles[j].file.name = OrderServiceImpl
        /\ TypeOfFile(layerFiles[i]) = "service"
        /\ TypeOfFile(layerFiles[j]) = "service"
        /\ \A k \in 1..Len(layerFiles) :
              k \notin {i, j} => layerFiles[k].file.name \notin {OrderService, OrderServiceImpl}

\* the records built from a file of the pair
PairRecords ==
    {i \in 1..Len(records) : records[i].path.name \in {OrderService, OrderServiceImpl}}

NamedTypes(recs) == {<<recs[i].name, recs[i].type>> : i \in 1..Len(recs)}

\* C4: for a fixed set of files in a layer, the types recorded in the records
\* that ResourceScanner.scan returns are the same for every order in which
\* the files are traversed.
C4_TypesOrderIndependent ==
    Scanned =>
        \A l \in Orderings({layerFiles[i] : i \in 1..Len(layerFiles)}) :
            NamedTypes(ScanResources(l)) = NamedTypes(records)

Unreadable == {i \in 1..Len(layerFiles) : ~layerFiles[i].readable}

\* C17: a failed read of a source file during a layer scan aborts the scan
\* and is reported to the caller; the scan does not return a result from
\* which that file is missing.
C17_ReadFailureAbortsScan ==
    (Scanned /\ Unreadable # {}) =>
        /\ result.status = "error"
        /\ records = <<>>

IsImpl(e) == EndsWith(e.file.name, "Impl")

\* the files of the layer a record stands for: non-implementation files of
\* its name and implementation files of the name it holds as implementation
Members(r) ==
    {i \in 1..Len(layerFiles) :
        /\ layerFiles[i].readable
        /\ IF IsImpl(layerFiles[i]) THEN layerFiles[i].file.name = r.implementation
           ELSE layerFiles[i].file.name = r.name}

Min(S) == CHOOSE x \in S : \A y \in S : x <= y

\* C18: the result of a layer scan has at most one record per logical name;
\* every readable file is represented by exactly one record, whichever file
\* of a record is traversed first (an implementation by its name in
\* `implementation`, any other file by the record's name); a record's type
\* and path are those of the first traversed file it stands for, so an
\* implementation merged later never changes the type recorded for its
\* interface, and an implementation traversed first starts the record.
C18_MergeKeepsOneRecordPerName ==
    Scanned =>
        /\ \A a, b \in 1..Len(records) : a # b => records[a].name # records[b].name
        /\ \A i \in 1..Len(layerFiles) :
              layerFiles[i].readable =>
                 Cardinality({r \in 1..Len(records) : i \in Members(records[r])}) = 1
        /\ \A r \in 1..Len(records) :
              /\ Members(records[r]) # {}
              /\ LET first == layerFiles[Min(Members(records[r]))]
                 IN /\ records[r].type = TypeOfFile(first)
                    /\ records[r].path = first.file
                    /\ IsImpl(first) => records[r].implementation = first.file.name

\* an un-annotated implementation merged into the record of its interface
C18_Witness ==
    /\ Scanned /\ Len(layerFiles) = 2 /\ Len(records) = 1
    /\ layerFiles[1].file.name = OrderService /\ TypeOfFile(layerFiles[1]) = "service"
    /\ layerFiles[2].file.name = OrderServiceImpl /\ TypeOfFile(layerFiles[2]) = "entity"
    /\ records[1].type = "service"
    /\ records[1].implementation = OrderServiceImpl

\* the file name with exactly its trailing "Impl" removed
LogicalName(name) ==
    IF EndsWith(name, "Impl") THEN SubSeq(name, 1, Len(name) - 1) ELSE name

\* C19: every readable file of the layer is merged under its logical name:
\* the file name without its trailing "Impl", the rest of the name unchanged
\* also when "Impl" occurs earlier in it, and the file's own name when it
\* does not end with "Impl".
C19_KeyStripsTrailingSuffix ==
    Scanned =>
        \A i \in 1..Len(layerFiles) :
            layerFiles[i].readable =>
               \E r \in 1..Len(records) :
                  /\ records[r].name = LogicalName(layerFiles[i].file.name)
                  /\ i \in Members(records[r])

-----------------------------------------------------------------------------
(* Properties of the layer scan, call by call (SpecScanConcurrent) *)

\* C20: the resource map is not written before every analyzeJavaFile call
\* has settled, and for every order in which the calls settle scan returns
\* the records of a sequential scan of the same file list.
C20_ScanIndependentOfCompletionOrder ==
    /\ result.op \in {"none", "scanning"} => records = <<>>
    /\ Scanned =>
          /\ Len(completed) = Len(layerFiles)
          /\ records = ScanResources(layerFiles)

\* the call on the second file settled first, and the two files share a
\* record whose type depends on which of them is merged first
C20_Witness ==
    /\ Scanned /\ Len(layerFiles) = 2 /\ Len(records) = 1
    /\ completed[1].index = 2
    /\ TypeOfFile(layerFiles[1]) # TypeOfFile(layerFiles[2])
    /\ layerFiles[1].readable /\ layerFiles[2].readable

-----------------------------------------------------------------------------
(* Properties of the classification of one file (SpecClassify) *)

ClosedTypes ==
    {"enum", "entity", "service", "controller", "repository", "dto", "mapper", "unknown"}

Signal(hit, type) == [hit |-> hit, type |-> type]

\* the documented signals in priority order, the last one always matching
Signals(text, fileName) ==
    <<Signal("public enum" \in text, "enum"),
      Signal("@Entity" \in text \/ "@Table" \in text, "entity"),
      Signal("@Service" \in text, "service"),
      Signal("@Controller" \in text \/ "@RestController" \in text, "controller"),
      Signal("@Repository" \in text, "repository"),
      Signal(Len(fileName) > 0 /\ fileName[Len(fileName)] \in {"DTO", "Dto"}, "dto"),
      Signal("@Mapper" \in text, "mapper"),
      Signal("interface" \in text /\ "Repository" \in text, "repository"),
      Signal("interface" \in text /\ "Service" \in text, "service"),
      Signal("interface" \in text /\ \E i \in 1..Len(fileName) : fileName[i] = "Mapper",
             "mapper"),
      Signal(TRUE, "unknown")>>

-----------------------------------------------------------------------------
(* Properties of the project scan (SpecProject) *)

ProjectScanned == result.op = "scanProject"

ScanSucceeded == ProjectScanned /\ result.status = "ok"

Largest(S) == CHOOSE x \in S : \A y \in S : y <= x

\* the depths of the directories from the filesystem root down to the
\* working directory that hold a build file
MarkedDepths ==
    {k \in 0..Len(disk.cwd) :
        \E n \in {"pom.xml", "build.gradle", "build.gradle.kts"} :
            BuildFile(SubSeq(disk.cwd, 1, k), n) \in disk.markers}

\* C22: the project root is the nearest directory, among the working
\* directory and all its ancestors up to and including the filesystem
\* root, that contains pom.xml, build.gradle or build.gradle.kts; it is
\* the working directory when none of them does.
C22_RootIsNearestMarkedAncestor ==
    ProjectScanned =>
        result.root = IF MarkedDepths = {} THEN disk.cwd
                      ELSE SubSeq(disk.cwd, 1, Largest(MarkedDepths))

\* the candidates that exist under the project root, by position
ExistingCandidates ==
    {i \in 1..2 :
        \E tree \in disk.trees :
            result.root \o <<<<"src", "main", "java">>, <<"app", "src", "main", "java">>>>[i]
                = disk.project \o tree}

\* C23: the source path is the first of src/main/java, app/src/main/java
\* that exists under the project root; when neither exists the scan fails
\* with the source-not-found error after the source phase, no namespace,
\* module or layer phase runs and no project structure is returned.
C23_FirstExistingSourceCandidate ==
    ProjectScanned =>
        /\ ExistingCandidates # {} =>
              /\ result.error # "SourceNotFound"
              /\ result.sourcePath =
                    result.root \o
                    <<<<"src", "main", "java">>, <<"app", "src", "main", "java">>>>
                        [Min(ExistingCandidates)]
        /\ ExistingCandidates = {} =>
              /\ result.status = "error" /\ result.error = "SourceNotFound"
              /\ result.phases = <<"root", "source">>
              /\ ~result.returned
              /\ result.structure = <<>> /\ result.basePackage = <<>>

\* both candidates exist and the scan took src/main/java
C23_Witness ==
    /\ ProjectScanned
    /\ Cardinality(ExistingCandidates) = 2
    /\ result.sourcePath = result.root \o <<"src", "main", "java">>

\* the entry points of the source tree that was found
EntryPoints ==
    {f \in disk.mains :
        /\ disk.project \o f.tree = result.sourcePath
        /\ Len(f.name) >= 2
        /\ SubSeq(f.name, Len(f.name) - 1, Len(f.name)) = <<"Application", ".java">>
        /\ f.annotated}

\* the dotted name spells the directory path: its names with "." between
DotJoined(name, dir) ==
    /\ Len(name) = IF dir = <<>> THEN 0 ELSE 2 * Len(dir) - 1
    /\ \A i \in 1..Len(name) :
          name[i] = IF i % 2 = 1 THEN dir[(i + 1) \div 2] ELSE "."

\* C24: once the source tree is found, the scan fails with the
\* entry-point-not-found error if and only if the tree has no file whose
\* name ends in Application.java and whose content contains
\* @SpringBootApplication; otherwise the base namespace is the dot-joined
\* directory of such a file relative to the source root, empty when the
\* file lies in the source root, the scan succeeds, module discovery works
\* on <sourceRoot>/<namespace as path> and generation on
\* <sourceRoot>/<namespace as path>/<module>.
C24_NamespaceFromEntryPoint ==
    (ProjectScanned /\ result.error # "SourceNotFound") =>
        /\ result.error = "MainClassNotFound" <=> EntryPoints = {}
        /\ EntryPoints # {} =>
              \E f \in EntryPoints :
                  /\ result.status = "ok"
                  /\ DotJoined(result.basePackage, f.dir)
                  /\ result.basePackagePath = result.sourcePath \o f.dir
                  /\ result.returned
                  /\ \A i \in 1..Len(result.structure) :
                        ModuleBasePath(result.sourcePath, result.basePackage,
                                       result.structure[i].name)
                            = result.sourcePath \o f.dir \o <<result.structure[i].name>>

\* the entry point lies in the source root: the namespace is empty and the
\* scan found the module of the source root
C24_Witness ==
    /\ ScanSucceeded
    /\ result.basePackage = <<>>
    /\ result.basePackagePath = result.sourcePath
    /\ Len(result.structure) = 1
    /\ \E f \in disk.mains : f.dir = <<>> /\ f.annotated

\* the spellings of the layer names, whatever the case of their letters
LayerSpellings == {"application", "domain", "infrastructure", "Domain"}

\* the immediate subdirectories of the base package directory with a child
\* named like a layer
LayeredDirectories ==
    {d[1] : d \in {x \in dirs : /\ Len(x) = 1
                                /\ \E c \in dirs : /\ Len(c) = 2 /\ c[1] = x[1]
                                                   /\ c[2] \in LayerSpellings}}

ScannedModules == {result.structure[i].name : i \in 1..Len(result.structure)}

\* C25: the modules of a scan result are exactly the immediate
\* subdirectories of the base package directory that have at least one
\* immediate child whose name equals application, domain or infrastructure
\* when compared case-insensitively, each once; the scan succeeds whatever
\* other subdirectories there are.
C25_ModulesAreLayeredDirectories ==
    (ProjectScanned /\ project = "ok") =>
        /\ result.status = "ok"
        /\ ScannedModules = LayeredDirectories
        /\ Len(result.structure) = Cardinality(LayeredDirectories)

\* a directory whose only layer-like child is Domain was accepted and a
\* directory without any was skipped
C25_Witness ==
    /\ ScanSucceeded
    /\ ScannedModules = {Sales}
    /\ <<Sales, "Domain">> \in dirs
    /\ {<<Sales, "domain">>, <<Sales, "application">>} \cap dirs = {}
    /\ <<Store, "docs">> \in dirs

\* C26: for each module of a scan result and each of the names application,
\* domain, infrastructure, the layer structure is null, with no
\* directories and no resources attribute, exactly when the directory
\* <module>/<layer> does not exist; otherwise it has the names of the
\* immediate subdirectories of that directory and a resources sequence.
C26_NullLayerIffDirectoryMissing ==
    ScanSucceeded =>
        \A i \in 1..Len(result.structure) :
            \A layer \in {"application", "domain", "infrastructure"} :
                LET module == result.structure[i]
                    structure == module.layers[layer]
                    layerPath == <<module.name, layer>>
                IN /\ layerPath \notin dirs <=> structure = NullLayer
                   /\ layerPath \notin dirs =>
                         {"directories", "resources"} \cap DOMAIN structure = {}
                   /\ layerPath \in dirs =>
                         /\ {"directories", "resources"} \subseteq DOMAIN structure
                         /\ structure.directories =
                               {c[3] : c \in {x \in dirs : Len(x) = 3 /\ SubSeq(x, 1, 2) = layerPath}}
                         /\ DOMAIN structure.resources = 1..Len(structure.resources)

\* a module with an empty domain layer and no application layer: the one
\* is an empty structure, the other null
C26_Witness ==
    /\ ScanSucceeded
    /\ \E i \in 1..Len(result.structure) :
          LET layers == result.structure[i].layers
          IN /\ layers["application"] = NullLayer
             /\ layers["domain"] # NullLayer
             /\ layers["domain"].directories = {}
             /\ layers["domain"].resources = <<>>

\* C27: every module of a scan result has at least one of its three layers
\* present.
C27_EveryModuleHasALayer ==
    ScanSucceeded =>
        \A i \in 1..Len(result.structure) :
            \E layer \in {"application", "domain", "infrastructure"} :
                result.structure[i].layers[layer] # NullLayer

-----------------------------------------------------------------------------
(* The create command (commands/create.js) *)

ResourceTypes == {"entity", "service", "dto", "repository", "controller", "mapper", "enum"}

\* a value an async helper returned
Value(v) == [status |-> "ok", value |-> v, error |-> "none", msgName |-> <<>>, msgModule |-> <<>>]

\* an error an async helper threw
Thrown(kind, name, module) ==
    [status |-> "error", value |-> <<>>, error |-> kind, msgName |-> name, msgModule |-> module]

\* variant: the empty-project test made before the --module test
GetModuleEmptyFirst(providedModule, modules, answer) ==
    IF modules = {} THEN Thrown("NoModules", <<>>, <<>>)
    ELSE IF providedModule # <<>>
    THEN IF providedModule \in modules THEN Value(providedModule)
         ELSE Thrown("ModuleNotFound", <<>>, providedModule)
    ELSE Value(answer)

\* getModule; answer is the module picked at the prompt
GetModule(providedModule, modules, answer) ==
    IF providedModule # <<>>
    THEN IF providedModule \in modules THEN Value(providedModule)
         ELSE Thrown("ModuleNotFound", <<>>, providedModule)
    ELSE IF modules = {} THEN Thrown("NoModules", <<>>, <<>>)
    ELSE Value(answer)

\* getResourceType; answer is the type picked at the prompt
GetResourceType(providedType, answer) ==
    IF providedType # "undefined"
    THEN IF ToLowerCase(providedType) \in ResourceTypes THEN Value(ToLowerCase(providedType))
         ELSE Thrown("InvalidType", <<>>, <<>>)
    ELSE Value(answer)

PlainName(n) == [name |-> n, structured |-> FALSE, isEntityBased |-> FALSE]
StructuredName(n, eb) == [name |-> n, structured |-> TRUE, isEntityBased |-> eb]

\* selectEntityForRepository; answer.name is the entity picked at the prompt
SelectEntityForRepository(providedName, entities, m, answer) ==
    IF providedName # <<>>
    THEN IF providedName \in entities THEN Value(PlainName(providedName))
         ELSE Thrown("EntityNotFound", providedName, m)
    ELSE IF entities = {} THEN Thrown("NoEntities", <<>>, m)
    ELSE Value(PlainName(answer.name))

\* getServiceName; a name given on the command line is returned unchecked
GetServiceName(providedName, entities, m, answer) ==
    IF providedName # <<>> THEN Value(StructuredName(providedName, FALSE))
    ELSE IF answer.isEntityBased
    THEN IF entities = {} THEN Thrown("NoEntities", <<>>, m)
         ELSE Value(StructuredName(answer.name, TRUE))
    ELSE Value(StructuredName(answer.name, FALSE))

\* getResourceName; for the other types a name given on the command line is
\* returned as it is, only the prompt validates it
GetResourceName(providedName, type, entities, m, answer) ==
    IF type = "repository" THEN SelectEntityForRepository(providedName, entities, m, answer)
    ELSE IF type = "service" THEN GetServiceName(providedName, entities, m, answer)
    ELSE IF providedName # <<>> THEN Value(PlainName(providedName))
    ELSE Value(PlainName(answer.name))

CliNames == {Order, <<"order">>, OrderRepository}

\* the entity picked from the list prompt; no prompt when the list is empty
EntityAnswers(entities) == IF entities = {} THEN {<<>>} ELSE entities

\* what the prompts of getServiceName / getResourceName / selectEntityForRepository accept
NameAnswers(providedName, type, entities) ==
    IF providedName # <<>> THEN {[name |-> <<>>, isEntityBased |-> FALSE]}
    ELSE IF type = "repository"
    THEN {[name |-> e, isEntityBased |-> FALSE] : e \in EntityAnswers(entities)}
    ELSE IF type = "service"
    THEN {[name |-> e, isEntityBased |-> TRUE] : e \in EntityAnswers(entities)}
         \cup {[name |-> n \o <<"Service">>, isEntityBased |-> FALSE] :
                  n \in {x \in CliNames : ResourceNamePattern(x)}}
    ELSE {[name |-> n, isEntityBased |-> FALSE] : n \in {x \in CliNames : ResourceNamePattern(x)}}

ModuleAnswers(providedModule, modules) ==
    IF providedModule # <<>> \/ modules = {} THEN {<<>>} ELSE modules

TypeAnswers(providedType) ==
    IF providedType # "undefined" THEN {"undefined"} ELSE ResourceTypes

CliResult(op, args, modules) ==
    [NoResult EXCEPT !.op = op, !.args = args, !.modules = modules]

\* the catch block: message printed, process.exit(1)
Failed(r, by, e) ==
    [r EXCEPT !.status = "error", !.error = e.error, !.msgName = e.msgName,
              !.msgModule = e.msgModule, !.raisedBy = by, !.exitCode = 1]

\* handleResourceCreation
CreateResource(providedName, optModule, optType, optIdtype) ==
    /\ steps < MaxCommands
    /\ steps' = steps + 1
    /\ UNCHANGED <<project, disk, layerFiles, completed, records>>
    /\ LET args == [name |-> providedName, module |-> optModule, type |-> optType,
                    idtype |-> optIdtype]
           modules == FindModules(dirs)
       IN IF ScanError(project) # "none"
          THEN /\ result' = Failed(CliResult("createResource", args, {}), "scanner",
                                   Thrown(ScanError(project), <<>>, <<>>))
               /\ UNCHANGED <<dirs, files, configFile>>
          ELSE
          /\ configFile' = ConfigFileAfterGetConfig(configFile)
          /\ \E ma \in ModuleAnswers(optModule, modules), ta \in TypeAnswers(optType) :
             LET r == CliResult("createResource", args, modules)
                 m == GetModule(optModule, modules, ma)
                 t == GetResourceType(optType, ta)
             IN IF m.status = "error"
                THEN result' = Failed(r, "command", m) /\ UNCHANGED <<dirs, files>>
                ELSE IF t.status = "error"
                THEN result' = Failed(r, "command", t) /\ UNCHANGED <<dirs, files>>
                ELSE
                \E listing \in DomainListings(dirs, files, m.value) :
                LET entities == GetAvailableEntities(dirs, modules, m.value, listing)
                IN \E na \in NameAnswers(providedName, t.value, entities) :
                   LET n == GetResourceName(providedName, t.value, entities, m.value, na)
                   IN IF n.status = "error"
                      THEN result' = Failed(r, "command", n) /\ UNCHANGED <<dirs, files>>
                      ELSE
                      LET req == Request(n.value.name, n.value.structured,
                                         n.value.isEntityBased, t.value, m.value, optIdtype)
                          out == Generate(files, GetConfig(configFile), req)
                      IN /\ files' = FilesAfter(files, out.writes, 1)
                         /\ dirs' = DirsAfter(dirs, out.writes, 1)
                         /\ result' =
                              IF out.status = "error"
                              THEN [Failed(r, "generator", out) EXCEPT !.req = req]
                              ELSE [r EXCEPT !.status = "ok", !.req = req,
                                             !.createdFiles = out.createdFiles,
                                             !.data = out.data]

\* getModuleName; answer is the name typed at the prompt
GetModuleName(providedName, answer) ==
    IF providedName # <<>>
    THEN IF ModuleNamePattern(providedName) THEN Value(providedName)
         ELSE Thrown("InvalidName", providedName, <<>>)
    ELSE Value(answer)

ModuleNameAnswers(providedName) ==
    IF providedName # <<>> THEN {<<>>} ELSE {x \in ModuleNames : ModuleNamePattern(x)}

\* handleModuleCreation
CreateModule(providedName) ==
    /\ steps < MaxCommands
    /\ steps' = steps + 1
    /\ UNCHANGED <<project, disk, files, layerFiles, completed, records>>
    /\ LET args == [name |-> providedName, module |-> <<>>, type |-> "undefined",
                    idtype |-> "undefined"]
           r == CliResult("createModule", args, FindModules(dirs))
       IN IF ScanError(project) # "none"
          THEN /\ result' = Failed([r EXCEPT !.modules = {}], "scanner",
                                   Thrown(ScanError(project), <<>>, <<>>))
               /\ UNCHANGED <<dirs, configFile>>
          ELSE \E a \in ModuleNameAnswers(providedName) :
               LET n == GetModuleName(providedName, a)
               IN IF n.status = "error"
                  THEN result' = Failed(r, "command", n) /\ UNCHANGED <<dirs, configFile>>
                  ELSE LET out == ModuleGenerate(dirs, GetConfig(configFile), n.value)
                       IN /\ configFile' = ConfigFileAfterGetConfig(configFile)
                          /\ dirs' = out.dirs
                          /\ result' = [r EXCEPT !.status = "ok",
                                                 !.moduleName = out.moduleName,
                                                 !.config = GetConfig(configFile),
                                                 !.createdPaths = out.createdPaths]

\* creation types that are neither "module" nor "resource"
OtherCreationTypes == {"modules", "entity"}

\* the create action for any other creation type: a message is printed and
\* the handler returns; process.exit is not called, so the exit status is 0
CreateOther(creationType, providedName) ==
    /\ steps < MaxCommands
    /\ steps' = steps + 1
    /\ result' = [CliResult("create", [NoResult.args EXCEPT !.name = providedName], {})
                     EXCEPT !.status = "error", !.error = "InvalidCreationType",
                            !.raisedBy = "command", !.exitCode = 0]
    /\ UNCHANGED <<project, disk, dirs, files, configFile, layerFiles, completed, records>>

CliSeedFiles == {EntityFile(Sales, Order), EntityFile(Sales, OrderRepository)}

\* directories of a project without source files
CliSeedDirs ==
    {{}, {<<Sales>>}, {<<Sales>>, <<Sales, "domain">>}, {<<Sales>>, <<Sales, "application">>}}

CliModuleOptions == {<<>>, Sales, <<"S">>}

\* names given to create module: valid ones and ones the pattern rejects
CliModuleNames == {Sales, <<"s", "1">>, <<"S">>, <<"1", "s">>}

\* values given to --idtype
CliIdTypeOptions == {"undefined", "serial"}
CliTypeOptions ==
    {"undefined", "entity", "repository", "service", "controller", "Entity", "bogus"}

InitCli ==
    /\ \/ /\ project = "ok"
          /\ \/ files \in SeedFileSystems(CliSeedFiles) /\ dirs = DirsOf(files)
             \/ files = <<>> /\ dirs \in CliSeedDirs
       \/ /\ project \in {"noSource", "noMain"}
          /\ files = <<>>
          /\ dirs = {}
    /\ configFile \in {NoConfigFile, ConfigFile(TRUE, DefaultConfig)}
    /\ result = NoResult
    /\ steps = 0
    /\ layerFiles = <<>>
    /\ completed = <<>>
    /\ disk = DiskFor(project)
    /\ records = <<>>

NextCli ==
    \/ \E n \in CliNames \cup {<<>>}, m \in CliModuleOptions, t \in CliTypeOptions :
          \E i \in (IF t = "entity" THEN CliIdTypeOptions ELSE {"undefined"}) :
             CreateResource(n, m, t, i)
    \/ \E n \in CliModuleNames \cup {<<>>} : CreateModule(n)
    \/ \E t \in OtherCreationTypes, n \in {<<>>, Order} : CreateOther(t, n)

SpecCli == InitCli /\ [][NextCli]_vars

-----------------------------------------------------------------------------
(* Properties of the create command (SpecCli) *)

ResourceCommand(r) == r.op = "createResource"
ModuleCommand(r) == r.op = "createModule"

\* the command generated what was asked for: the files of the resource, or
\* the base directory of the module
Generated(r, ds, fs) ==
    /\ r.status = "ok"
    /\ \/ /\ ResourceCommand(r)
          /\ Len(r.createdFiles) > 0
          /\ \A i \in 1..Len(r.createdFiles) : r.createdFiles[i] \in DOMAIN fs
       \/ /\ ModuleCommand(r)
          /\ <<r.moduleName>> \in ds

\* C15: a create command ends with exit status zero exactly when the
\* requested module or resource was generated; every command that ends in
\* an error, an unrecognized creation type included, ends with a non-zero
\* exit status and an error message.
C15_ExitStatusReflectsOutcome ==
    [][(steps' = steps + 1) =>
          /\ (result'.exitCode = 0) <=> Generated(result', dirs', files')
          /\ result'.status = "error" =>
                 /\ result'.exitCode # 0
                 /\ result'.error # "none"]_vars

\* the command got past the scan and the module and type options
ReachedName(r) ==
    r.raisedBy # "scanner" /\ r.error \notin {"ModuleNotFound", "NoModules", "InvalidType"}

\* C7: a provided module name not matching ^[a-z][a-z0-9]*$ or a provided
\* resource name not matching ^[A-Z][a-zA-Z0-9 ]*$ is rejected with an error,
\* and no directory, generated file or configuration file has been created
\* or written when the error is raised.
C7_InvalidNameRejectedBeforeMutation ==
    [][(/\ steps' = steps + 1
        /\ result'.args.name # <<>>
        /\ \/ ResourceCommand(result') /\ ReachedName(result')
                 /\ ~ResourceNamePattern(result'.args.name)
           \/ ModuleCommand(result') /\ result'.raisedBy # "scanner"
                 /\ ~ModuleNamePattern(result'.args.name)) =>
          /\ result'.status = "error"
          /\ result'.exitCode = 1
          /\ dirs' = dirs
          /\ files' = files
          /\ configFile' = configFile]_vars

NoModulesCase == project = "ok" /\ FindModules(dirs) = {}

\* C8 as stated: in a project with an entry point and no modules the scan
\* returns modules = [] and every create resource request, with or without a
\* --module value, fails with the "no modules found" error and generates
\* nothing.
C8_AlwaysNoModulesError ==
    [][(steps' = steps + 1 /\ ResourceCommand(result') /\ NoModulesCase) =>
          /\ result'.modules = {}
          /\ result'.status = "error"
          /\ result'.error = "NoModules"
          /\ files' = files
          /\ dirs' = dirs]_vars

\* C8 (amended): in a project with an entry point and no modules the scan
\* returns modules = [] and every create resource request fails and
\* generates nothing: with the "no modules found" error when no --module
\* value is given, with "module not found" naming the value when one is given.
C8_NoModulesRejected ==
    [][(steps' = steps + 1 /\ ResourceCommand(result') /\ NoModulesCase) =>
          /\ result'.modules = {}
          /\ result'.status = "error"
          /\ result'.exitCode = 1
          /\ IF result'.args.module = <<>>
             THEN result'.error = "NoModules"
             ELSE result'.error = "ModuleNotFound" /\ result'.msgModule = result'.args.module
          /\ files' = files
          /\ dirs' = dirs]_vars

C8_Witness ==
    /\ ResourceCommand(result) /\ NoModulesCase
    /\ <<Sales>> \in dirs
    /\ result.args.module = Sales
    /\ result.error = "ModuleNotFound"

\* the module m holds the entity file of e and nothing else
OnlyEntity(m, e) ==
    /\ project = "ok"
    /\ DOMAIN files = {EntityFile(m, e)}
    /\ dirs = DirsOf(files)
    /\ DetermineResourceType(files[EntityFile(m, e)], e) = "entity"

\* C9: in a module whose only artifact is the entity file of E, create
\* resource with type repository succeeds for the name E and writes
\* infrastructure/repositories/<E>Repository.java; for every other name P it
\* fails with a missing-prerequisite error naming P and the module, and
\* writes nothing.
C9_RepositoryOnlyForExistingEntity ==
    [][\A e \in CliNames :
         (/\ steps' = steps + 1
          /\ ResourceCommand(result')
          /\ OnlyEntity(Sales, e)
          /\ result'.args.module = Sales
          /\ result'.args.type = "repository"
          /\ result'.args.name # <<>>) =>
            IF result'.args.name = e
            THEN /\ result'.status = "ok"
                 /\ result'.createdFiles = <<RepositoryFile(Sales, e)>>
                 /\ DOMAIN files' = {EntityFile(Sales, e), RepositoryFile(Sales, e)}
            ELSE /\ result'.status = "error"
                 /\ result'.error = "EntityNotFound"
                 /\ result'.msgName = result'.args.name
                 /\ result'.msgModule = Sales
                 /\ files' = files
                 /\ dirs' = dirs]_vars

\* C10: a controller request produced by the command surface ends with
\* generate writing exactly one file, infrastructure/controllers/
\* <Name>Controller.java, or, in entity-based mode without a service for the
\* name, with a missing-prerequisite error; it never ends in another failure.
C10_ControllerRequestCompletes ==
    [][(steps' = steps + 1 /\ ResourceCommand(result') /\ result'.req.type = "controller") =>
          \/ /\ result'.status = "ok"
             /\ result'.createdFiles =
                   <<ControllerFile(result'.req.module, result'.req.name)>>
          \/ /\ result'.status = "error"
             /\ result'.req.isEntityBased
             /\ result'.error = "ServiceNotFound"]_vars

\* the command handed the request to the generator
Accepted(r) == r.raisedBy \notin {"scanner", "command"}

\* C28: for a repository request naming N in an existing module M, the
\* command accepts N exactly when M/domain/entities/N.java exists, and an
\* accepted request does not fail in the generator with a
\* missing-prerequisite error.
C28_EntityChecksAgree ==
    [][(/\ steps' = steps + 1
        /\ ResourceCommand(result')
        /\ ScanError(project) = "none"
        /\ result'.args.type = "repository"
        /\ result'.args.name # <<>>
        /\ result'.args.module \in FindModules(dirs)) =>
          LET entity == EntityFile(result'.args.module, result'.args.name)
          IN /\ Accepted(result') <=> entity \in DOMAIN files
             /\ Accepted(result') => result'.error \notin MissingPrerequisiteErrors]_vars

====
